---- MODULE Spec2Model ----
(***************************************************************************)
(* A model of pivot-pdf (crate pdf-core): the low-level PdfWriter, the     *)
(* PdfDocument page assembler and the TextFlow layout engine.              *)
(*                                                                         *)
(* The output file is a sequence of chunks, one per write_bytes call that  *)
(* the sink accepted; every chunk carries its byte length, so the byte     *)
(* position of a chunk is the sum of the lengths before it.  The writer's  *)
(* own `offset` counter is kept separately, as the code keeps it.          *)
(*                                                                         *)
(* Three specifications share the variables:                               *)
(*   SpecWriter  the public PdfWriter API driven directly                  *)
(*   Spec        the PdfDocument assembler over a sink that may fail       *)
(*   SpecFlow    TextFlow::generate_content_ops over bounded span texts    *)
(***************************************************************************)
EXTENDS Integers, Sequences, FiniteSets, TLC

VARIABLES
    \* ---- PdfWriter (writer.rs) ----
    out,                    \* the bytes the sink holds, as a sequence of chunks
    offset,                 \* PdfWriter.offset
    xref_entries,           \* PdfWriter.xref_entries: Seq of <<num, offset>>
    \* ---- PdfDocument (document.rs) ----
    info,                   \* PdfDocument.info
    page_obj_ids,           \* PdfDocument.page_obj_ids
    current_page,           \* PdfDocument.current_page (NoPage = None)
    next_obj_num,           \* PdfDocument.next_obj_num
    font_obj_ids,           \* BTreeMap<BuiltinFont, ObjId>
    truetype_fonts,         \* Vec<TrueTypeFont>
    truetype_font_obj_ids,  \* BTreeMap<usize, TrueTypeFontObjIds>
    next_font_num,          \* PdfDocument.next_font_num
    compress,               \* PdfDocument.compress
    images,                 \* Vec<ImageData>
    image_obj_ids,          \* BTreeMap<usize, ImageObjIds>
    written_images,         \* BTreeSet<usize>
    next_image_num,         \* PdfDocument.next_image_num
    overlay_streams,        \* page index -> the content streams added to the page
    \* ---- the caller and the sink ----
    status,                 \* "open" | "failed" (an operation returned Err) | "done"
    sink_failures,          \* how often the sink has refused a write so far
    log,                    \* the pages the caller began, with the content placed on each
    \* ---- TextFlow (textflow.rs) and the caller's flow loop ----
    flow,                   \* TextFlow: spans, word_break, cursor
    flow_hist,              \* the fit_textflow calls made on the flow so far
    \* ---- TableCursor (tables.rs) and the caller's table loop ----
    tcursor,
    table_hist,             \* the fit_row calls made with the cursor so far
    \* ---- a caller that keeps one rect for its flow ----
    frame,
    \* ---- break_word (textflow.rs) called on its own ----
    bw,                     \* the arguments of the call and the pieces returned
    \* ---- the formatting functions of writer.rs called on their own ----
    fmt                     \* the argument of the call and the text returned

vars == <<out, offset, xref_entries, info, page_obj_ids, current_page,
          next_obj_num, font_obj_ids, truetype_fonts, truetype_font_obj_ids,
          next_font_num, compress, images, image_obj_ids, written_images,
          next_image_num, overlay_streams, status, sink_failures, log, flow,
          flow_hist,
          tcursor, table_hist, frame, bw, fmt>>

writerVars == <<out, offset, xref_entries>>
docVars == <<info, page_obj_ids, current_page, next_obj_num, font_obj_ids,
             truetype_fonts, truetype_font_obj_ids, next_font_num, compress,
             images, image_obj_ids, written_images, next_image_num,
             overlay_streams>>

(***************************************************************************)
(* Bounds of the model.                                                    *)
(***************************************************************************)
MaxWriterObjs == 3      \* objects written through the bare PdfWriter API
MaxPages == 2           \* begin_page calls per document
MaxOps == 2             \* content operations per document
MaxImages == 1          \* load_image_bytes calls that succeed
MaxFonts == 1           \* load_font_bytes calls that succeed
MaxFontLoads == 1       \* load_font_bytes calls
MaxInfo == 1            \* set_info calls
MaxSinkFailures == 1    \* writes the sink refuses in one run
MaxFailAt == 4          \* the sink refuses one of the first MaxFailAt writes of a call
MaxTextLen == 3         \* characters of a flow's spans, all together
MaxSpans == 2           \* add_text calls on one flow
MaxRowCalls == 4        \* fit_row and reset calls on one cursor
MaxLoadCalls == 3       \* load_font_bytes and load_image_bytes calls of a set-up
MaxEditCalls == 4       \* begin_page and open_page calls of a caller that edits
MaxWordLen == 3         \* characters of a word handed to break_word
MaxOffsetDigits == 11   \* decimal digits of a byte offset (a usize has up to 20)
MaxLoopPages == 3       \* pages the streaming table loop may begin
MaxGlyphOps == 3        \* place_text_styled calls of a caller that uses two faces
MaxGlyphPages == 2      \* begin_page calls of a caller that uses two faces
MaxLoopRows == 2        \* data rows of the streaming table loop
MaxCellLen == 4         \* characters of the text of a cell whose lines are counted
RectY == 700000         \* the top of every rect, in 1/1000 pt

(***************************************************************************)
(* Generic helpers.                                                        *)
(***************************************************************************)
NoPage == [open |-> FALSE]
EmptyMap == [x \in {} |-> 0]

MapPut(f, k, v) == [x \in (DOMAIN f) \cup {k} |-> IF x = k THEN v ELSE f[x]]

RECURSIVE SortedSeq(_)
SortedSeq(S) ==
    IF S = {} THEN <<>>
    ELSE LET m == CHOOSE x \in S : \A y \in S : x <= y
         IN <<m>> \o SortedSeq(S \ {m})

RECURSIVE SumLen(_, _)
SumLen(chunks, n) == IF n = 0 THEN 0 ELSE SumLen(chunks, n - 1) + chunks[n].len

\* The byte position in the output at which chunk i begins.
PosOf(chunks, i) == SumLen(chunks, i - 1)

Range(s) == {s[i] : i \in DOMAIN s}

\* The number of characters of n printed in decimal ({} in format!).
RECURSIVE Digits(_)
Digits(n) == IF n < 10 THEN 1 ELSE 1 + Digits(n \div 10)

\* Option<ObjId>::None
NoId == <<>>

(***************************************************************************)
(* The machine record: the writer's and the document's fields as one       *)
(* value, so that an operation is a function from record to record, plus   *)
(* three fields that exist only while one operation runs:                  *)
(*   calls  write_all calls the operation has made on the sink so far      *)
(*   fail   the call the sink refuses (0: it accepts them all)             *)
(*   err    the operation has hit `?` on an Err and is returning it        *)
(***************************************************************************)
Pack(failAt) ==
    [out |-> out, offset |-> offset, xref_entries |-> xref_entries,
     info |-> info, page_obj_ids |-> page_obj_ids, current_page |-> current_page,
     next_obj_num |-> next_obj_num, font_obj_ids |-> font_obj_ids,
     truetype_fonts |-> truetype_fonts,
     truetype_font_obj_ids |-> truetype_font_obj_ids,
     next_font_num |-> next_font_num, compress |-> compress, images |-> images,
     image_obj_ids |-> image_obj_ids, written_images |-> written_images,
     next_image_num |-> next_image_num, overlay_streams |-> overlay_streams,
     calls |-> 0, fail |-> failAt, err |-> FALSE]

Unpack(m) ==
    /\ out' = m.out
    /\ offset' = m.offset
    /\ xref_entries' = m.xref_entries
    /\ info' = m.info
    /\ page_obj_ids' = m.page_obj_ids
    /\ current_page' = m.current_page
    /\ next_obj_num' = m.next_obj_num
    /\ font_obj_ids' = m.font_obj_ids
    /\ truetype_fonts' = m.truetype_fonts
    /\ truetype_font_obj_ids' = m.truetype_font_obj_ids
    /\ next_font_num' = m.next_font_num
    /\ compress' = m.compress
    /\ images' = m.images
    /\ image_obj_ids' = m.image_obj_ids
    /\ written_images' = m.written_images
    /\ next_image_num' = m.next_image_num
    /\ overlay_streams' = m.overlay_streams

(***************************************************************************)
(* PdfWriter (writer.rs).                                                  *)
(***************************************************************************)

\* PdfWriter::write_bytes: hand the bytes to the sink; count them only when
\* the sink took them.  A refused write makes the caller return through `?`;
\* the chunk it was writing is not in the output as a whole.
write_bytes(m, chunk) ==
    IF m.calls + 1 = m.fail
    THEN [m EXCEPT !.calls = @ + 1, !.err = TRUE]
    ELSE [m EXCEPT !.calls = @ + 1, !.out = Append(@, chunk),
                   !.offset = @ + chunk.len]

\* PdfWriter::write_str
write_str(m, chunk) == IF m.err THEN m ELSE write_bytes(m, chunk)

\* PdfWriter::write_header: "%PDF-1.7\n" and the 6-byte binary comment.
write_header(m) ==
    write_str(write_str(m, [t |-> "hdr", len |-> 9]), [t |-> "bin", len |-> 6])

\* The bytes write_pdf_object produces for a body, summarised by their number:
\* the dictionary text of each kind of object, plus the stream data.
BodyLen(obj) ==
    CASE obj.kind = "Name"           -> 8
      [] obj.kind = "Type1Font"      -> 52
      [] obj.kind = "SMask"          -> 120 + obj.length
      [] obj.kind = "Image"          -> 110 + obj.length
                                        + (IF obj.smask = NoId THEN 0 ELSE 11)
      [] obj.kind = "Content"        -> 30 + obj.length
                                        + (IF obj.flate THEN 20 ELSE 0)
      [] obj.kind = "Page"           -> 96 + 9 * (Len(obj.fonts) + Len(obj.xobjects))
                                        + (IF obj.has_xobject THEN 15 ELSE 0)
                                        + (IF "contents_array" \in DOMAIN obj
                                           THEN 6 * Len(obj.contents_array) - 4
                                           ELSE 0)
      [] obj.kind = "FontFile2"      -> 60 + obj.length
      [] obj.kind = "FontDescriptor" -> 170
      [] obj.kind = "CIDFontType2"   -> 150 + 4 * Len(obj.w)
      [] obj.kind = "ToUnicode"      -> 30 + obj.length
      [] obj.kind = "Type0"          -> 110
      [] obj.kind = "Info"           -> 6 + 12 * Len(obj.entries)
      [] obj.kind = "Pages"          -> 36 + 6 * Len(obj.kids)
      [] obj.kind = "Catalog"        -> 33
      [] OTHER                       -> 4

\* "N G obj\n"
ObjHeaderLen(id) == Digits(id[1]) + Digits(id[2]) + 6

\* PdfWriter::write_object: record (number, current offset), then write
\* "N G obj\n", the body and "\nendobj\n".  `m.err` on entry stands for a
\* caller that has already returned through `?`.
write_object(m, id, obj) ==
    IF m.err THEN m
    ELSE LET m0 == [m EXCEPT !.xref_entries = Append(@, <<id[1], m.offset>>)]
             m1 == write_str(m0, [t |-> "objhdr", num |-> id[1], gen |-> id[2],
                                  len |-> ObjHeaderLen(id)])
             m2 == write_str(m1, [t |-> "body", obj |-> obj, len |-> BodyLen(obj)])
         IN write_str(m2, [t |-> "endobj", len |-> 8])

\* xref_entries.sort_by_key(|&(num, _)| num): a stable sort.
RECURSIVE SortByNum(_)
SortByNum(es) ==
    IF es = <<>> THEN <<>>
    ELSE LET lo == CHOOSE n \in {es[i][1] : i \in DOMAIN es} :
                       \A i \in DOMAIN es : n <= es[i][1]
             k == CHOOSE i \in DOMAIN es :
                       es[i][1] = lo /\ \A j \in DOMAIN es : es[j][1] = lo => i <= j
         IN <<es[k]>> \o SortByNum(SubSeq(es, 1, k - 1) \o SubSeq(es, k + 1, Len(es)))

\* offset_map: a HashMap filled in order, so the last entry of a number wins.
OffsetMap(es) ==
    [n \in {es[i][1] : i \in DOMAIN es} |->
        LET k == CHOOSE i \in DOMAIN es :
                     es[i][1] = n /\ \A j \in DOMAIN es : es[j][1] = n => j <= i
        IN es[k][2]]

\* format!("{:010} {:05} n\r\n", off, 0): at least ten digits, a space, five
\* digits, " n\r\n".
InUseEntry(num, off) ==
    [t |-> "xrefentry", num |-> num, kind |-> "n", off |-> off, gen |-> 0,
     len |-> (IF Digits(off) > 10 THEN Digits(off) ELSE 10) + 10]

FreeEntry(num, gen) ==
    [t |-> "xrefentry", num |-> num, kind |-> "f", off |-> 0, gen |-> gen,
     len |-> 20]

\* The entries of the numbers that were written only: nothing for a gap.
RECURSIVE WriteEntriesSkippingGaps(_, _, _, _)
WriteEntriesSkippingGaps(m, map, obj_num, size) ==
    IF obj_num >= size THEN m
    ELSE WriteEntriesSkippingGaps(
            IF obj_num \in DOMAIN map
            THEN write_str(m, InUseEntry(obj_num, map[obj_num]))
            ELSE m,
            map, obj_num + 1, size)

RECURSIVE WriteEntries(_, _, _, _)
WriteEntries(m, map, obj_num, size) ==
    IF obj_num >= size THEN m
    ELSE WriteEntries(
            write_str(m, IF obj_num \in DOMAIN map
                         THEN InUseEntry(obj_num, map[obj_num])
                         ELSE FreeEntry(obj_num, 0)),
            map, obj_num + 1, size)

\* PdfWriter::write_xref_and_trailer.  
write_xref_and_trailer(m, root_id, info_id) ==
    IF m.err THEN m
    ELSE LET xref_offset == m.offset
             sorted == SortByNum(m.xref_entries)
             max_obj == IF sorted = <<>> THEN 0 ELSE sorted[Len(sorted)][1]
             size == max_obj + 1
             m0 == [m EXCEPT !.xref_entries = sorted]
             m1 == write_str(m0, [t |-> "xref", len |-> 5])
             m2 == write_str(m1, [t |-> "subsection", first |-> 0, size |-> size,
                                  len |-> 3 + Digits(size)])
             m3 == write_str(m2, FreeEntry(0, 65535))
             m4 == WriteEntries(m3, OffsetMap(sorted), 1, size)
             m5 == write_str(m4, [t |-> "trailer", len |-> 8])
             m6 == write_str(m5, [t |-> "trailerdict", size |-> size,
                                  root |-> root_id,
                                  len |-> 17 + Digits(size) + Digits(root_id[1])
                                            + Digits(root_id[2])])
             m7 == IF info_id = NoId THEN m6
                   ELSE write_str(m6, [t |-> "trailerinfo", info |-> info_id,
                                       len |-> 10 + Digits(info_id[1])
                                                 + Digits(info_id[2])])
             m8 == write_str(m7, [t |-> "trailerend", len |-> 4])
             m9 == write_str(m8, [t |-> "startxref", len |-> 10])
             m10 == write_str(m9, [t |-> "startxrefval", value |-> xref_offset,
                                   len |-> Digits(xref_offset) + 1])
         IN write_str(m10, [t |-> "eof", len |-> 6])

\* The calls an operation makes on the sink when none is refused.
CallsOf(m) == m.calls

(***************************************************************************)
(* Fonts and images (fonts.rs, truetype.rs, images.rs).                    *)
(***************************************************************************)
BuiltinFonts == {"Helvetica", "TimesRoman"}

\* The position of a font in enum BuiltinFont, which is also the number in
\* its resource name and the order of a BTreeSet<BuiltinFont>.
BuiltinNum(font) == IF font = "Helvetica" THEN 1 ELSE 5

\* BuiltinFont::pdf_name: "F1" .. "F14"
pdf_name(font) == <<"F", BuiltinNum(font)>>

\* A BTreeSet<BuiltinFont> iterated in order.
RECURSIVE FontsInOrder(_)
FontsInOrder(S) ==
    IF S = {} THEN <<>>
    ELSE LET f == CHOOSE x \in S : \A y \in S : BuiltinNum(x) <= BuiltinNum(y)
         IN <<f>> \o FontsInOrder(S \ {f})

\* The cmap of the test face: character -> glyph id; an unmapped character
\* gets glyph 0 (unwrap_or(0)).  MARK is a combining accent (U+0301), a
\* character outside ASCII that the face has glyph 3 for.
MARK == "U+0301"
Cmap(ch) ==
    IF ch = "a" THEN 1 ELSE IF ch = "b" THEN 2 ELSE IF ch = MARK THEN 3
    ELSE IF ch = "d" THEN 4 ELSE 0

\* TrueTypeFont::from_bytes: Err for bytes that are no font.
from_bytes(data, font_num) ==
    IF data = "ttf"
    THEN [ok |-> TRUE,
          font |-> [pdf_name |-> <<"F", font_num>>, used_glyphs |-> {},
                    units_per_em |-> 1000, ascent |-> 800, descent |-> -200]]
    ELSE [ok |-> FALSE]

\* TrueTypeFont::encode_text_hex: the glyph ids of the text, each recorded
\* in used_glyphs (glyph_id).
GlyphsOf(text) == [i \in DOMAIN text |-> Cmap(text[i])]

\* format!("{:04X}", gid) for the glyph ids of the test face.
Hex4(gid) ==
    CASE gid = 0 -> "0000" [] gid = 1 -> "0001" [] gid = 2 -> "0002"
      [] gid = 3 -> "0003" [] gid = 4 -> "0004"

encode_text_hex(font, text) ==
    [font |-> [font EXCEPT !.used_glyphs = @ \cup Range(GlyphsOf(text))],
     hex |-> [i \in DOMAIN text |-> Hex4(Cmap(text[i]))]]

\* glyph_widths scaled to PDF units: the advances of hmtx, which is 0 for
\* the glyph of the combining accent.
GlyphWidth(gid) == IF gid = 3 THEN 0 ELSE 500 + 10 * gid

\* TrueTypeFont::build_w_array: runs of consecutive glyph ids, each as
\* <<start, widths>>.
RECURSIVE RunEnd(_, _)
RunEnd(glyphs, j) ==
    IF j < Len(glyphs) /\ glyphs[j + 1] = glyphs[j] + 1 THEN RunEnd(glyphs, j + 1) ELSE j

RECURSIVE WArrayFrom(_, _)
WArrayFrom(glyphs, i) ==
    IF i > Len(glyphs) THEN <<>>
    ELSE LET j == RunEnd(glyphs, i)
         IN <<glyphs[i], [k \in 1 .. (j - i + 1) |-> GlyphWidth(glyphs[i + k - 1])]>>
            \o WArrayFrom(glyphs, j + 1)

\* A /W array with one entry for every glyph, consecutive or not.
build_w_array_glyph_by_glyph(font) ==
    LET glyphs == SortedSeq(font.used_glyphs)
        RECURSIVE Each(_)
        Each(i) == IF i > Len(glyphs) THEN <<>>
                   ELSE <<glyphs[i], <<GlyphWidth(glyphs[i])>>>> \o Each(i + 1)
    IN Each(1)

build_w_array(font) == WArrayFrom(SortedSeq(font.used_glyphs), 1)

\* images::load_image: format by magic bytes, then parse_jpeg / parse_png.
\* An RGBA PNG carries its alpha channel as smask_data.
load_image(data) ==
    CASE data = "jpeg"     -> [ok |-> TRUE, image |-> [format |-> "Jpeg", smask_data |-> FALSE,
                                                       data |-> data, len |-> 40]]
      [] data = "png_rgba" -> [ok |-> TRUE, image |-> [format |-> "Png", smask_data |-> TRUE,
                                                       data |-> data, len |-> 48]]
      [] OTHER             -> [ok |-> FALSE]

\* The length zlib gives data of n bytes.  What is fixed is the frame of 8
\* bytes (2 of header, 2 of a final empty block, 4 of Adler-32) that even
\* empty data gets; the model takes half the data for the rest.
FlateLen(n) == 8 + (n + 1) \div 2

\* A content operator of a page: its name, the resource it names (if any),
\* its text operand (if any) and its bytes.
Op(o, name, text, len) == [op |-> o, name |-> name, text |-> text, len |-> len]

RECURSIVE OpsLen(_)
OpsLen(ops) == IF ops = <<>> THEN 0 ELSE ops[1].len + OpsLen(Tail(ops))

\* "/{name} {size} Tf\n"
TfOp(name) == Op("Tf", name, <<>>, 8 + Digits(name[2]))

(***************************************************************************)
(* TextFlow (textflow.rs).  A text is a sequence of characters; lengths    *)
(* are in thousandths of a point, so that a width of n/1000 em at an       *)
(* integral font size is an integer.                                       *)
(***************************************************************************)
NL == "\n"
DEFAULT_WIDTH == 278

\* FontRef
Builtin(b) == [kind |-> "Builtin", b |-> b, id |-> 0]
TrueType(id) == [kind |-> "TrueType", b |-> "", id |-> id]
NoFont == [kind |-> "None", b |-> "", id |-> 0]

TextStyle(font, font_size) == [font |-> font, font_size |-> font_size]
Word(text, style, leading_space) ==
    [text |-> text, style |-> style, leading_space |-> leading_space]
Rect(y, width, height) == [y |-> y, width |-> width, height |-> height]

\* UsedFonts::default()
NoFontsUsed == [builtin |-> {}, truetype |-> {}]

\* FontMetrics::char_width: HELVETICA_WIDTHS and TIMES_ROMAN_WIDTHS at the
\* characters of the model; a code below 32 gets DEFAULT_WIDTH.
char_width(font, ch) ==
    IF font = "Helvetica"
    THEN CASE ch = "a" -> 556 [] ch = "b" -> 556 [] ch = " " -> 278
           [] ch = "-" -> 333 [] OTHER -> DEFAULT_WIDTH
    ELSE CASE ch = "a" -> 444 [] ch = "b" -> 500 [] ch = " " -> 250
           [] ch = "-" -> 333 [] OTHER -> DEFAULT_WIDTH

\* TrueTypeFont::char_width_pdf
char_width_pdf(ch) == GlyphWidth(Cmap(ch))

\* The sum of measure_text, in 1/1000 em.
RECURSIVE TotalWidth(_, _)
TotalWidth(text, font) ==
    IF text = <<>> THEN 0
    ELSE (IF font.kind = "Builtin" THEN char_width(font.b, text[1])
          ELSE char_width_pdf(text[1]))
         + TotalWidth(Tail(text), font)

\* measure_word: FontMetrics::measure_text or TrueTypeFont::measure_text,
\* total * font_size / 1000 points.
measure_word(text, style, tt_fonts) == TotalWidth(text, style.font) * style.font_size

\* line_height_for: 1.2 * font_size for a built-in font, (ascent - descent)
\* / units_per_em * font_size for a TrueType face.
line_height_for(style, tt_fonts) ==
    IF style.font.kind = "Builtin" THEN 1200 * style.font_size
    ELSE ((tt_fonts[style.font.id + 1].ascent - tt_fonts[style.font.id + 1].descent)
          * 1000 * style.font_size) \div tt_fonts[style.font.id + 1].units_per_em

\* pdf_font_name
pdf_font_name(font, tt_fonts) ==
    IF font.kind = "Builtin" THEN pdf_name(font.b) ELSE tt_fonts[font.id + 1].pdf_name

\* record_font
record_font(font, used) ==
    IF font.kind = "Builtin" THEN [used EXCEPT !.builtin = @ \cup {font.b}]
    ELSE [used EXCEPT !.truetype = @ \cup {font.id}]

\* extract_words, the end of a word: it is pushed with leading_space =
\* had_space && !words.is_empty(), and had_space is cleared.
PushWord(acc, cur, style) ==
    IF cur = <<>> THEN acc
    ELSE [words |-> Append(acc.words,
                           Word(cur, style, acc.had_space /\ acc.words # <<>>)),
          had_space |-> FALSE]

\* extract_words, one span read character by character: a space ends the
\* word and sets had_space, a newline ends the word and is a word of its
\* own, the end of the span ends the word.
RECURSIVE ScanSpan(_, _, _, _)
ScanSpan(acc, span, i, cur) ==
    IF i > Len(span.text) THEN PushWord(acc, cur, span.style)
    ELSE IF span.text[i] = " "
    THEN ScanSpan([PushWord(acc, cur, span.style) EXCEPT !.had_space = TRUE],
                  span, i + 1, <<>>)
    ELSE IF span.text[i] = NL
    THEN ScanSpan([words |-> Append(PushWord(acc, cur, span.style).words,
                                    Word(<<NL>>, span.style, FALSE)),
                   had_space |-> FALSE],
                  span, i + 1, <<>>)
    ELSE ScanSpan(acc, span, i + 1, Append(cur, span.text[i]))

RECURSIVE ScanSpans(_, _)
ScanSpans(acc, spans) ==
    IF spans = <<>> THEN acc
    ELSE ScanSpans(ScanSpan(acc, spans[1], 1, <<>>), Tail(spans))

\* TextFlow::extract_words
extract_words(spans) == ScanSpans([words |-> <<>>, had_space |-> FALSE], spans).words

\* break_word, the for loop over remaining.chars(): the characters taken
\* into the piece so far are prefix_end.
RECURSIVE PrefixEnd(_, _, _, _, _)
PrefixEnd(remaining, prefix_end, budget, style, tt_fonts) ==
    IF prefix_end >= Len(remaining) THEN prefix_end
    ELSE IF measure_word(SubSeq(remaining, 1, prefix_end + 1), style, tt_fonts) > budget
            /\ prefix_end > 0
    THEN prefix_end
    ELSE IF measure_word(SubSeq(remaining, 1, prefix_end + 1), style, tt_fonts) >= budget
    THEN prefix_end + 1
    ELSE PrefixEnd(remaining, prefix_end + 1, budget, style, tt_fonts)

\* break_word: `if prefix_end == 0 { prefix_end = one char }`
AtLeastOneChar(prefix_end) == IF prefix_end = 0 THEN 1 ELSE prefix_end

\* A piece that gets its "-" in Hyphenate even when it is the last.
PieceHyphenedLast(remaining, prefix_end, mode) ==
    IF mode = "Hyphenate"
    THEN Append(SubSeq(remaining, 1, prefix_end), "-")
    ELSE SubSeq(remaining, 1, prefix_end)

\* break_word: the piece, with "-" appended in Hyphenate when not the last.
Piece(remaining, prefix_end, mode) ==
    IF prefix_end < Len(remaining) /\ mode = "Hyphenate"
    THEN Append(SubSeq(remaining, 1, prefix_end), "-")
    ELSE SubSeq(remaining, 1, prefix_end)

\* break_word, the while loop over `remaining`.
RECURSIVE BreakFrom(_, _, _, _, _)
RECURSIVE PieceThenRest(_, _, _, _, _, _)
BreakFrom(remaining, budget, style, mode, tt_fonts) ==
    IF remaining = <<>> THEN <<>>
    ELSE PieceThenRest(remaining,
                       AtLeastOneChar(PrefixEnd(remaining, 0, budget, style, tt_fonts)),
                       budget, style, mode, tt_fonts)
PieceThenRest(remaining, prefix_end, budget, style, mode, tt_fonts) ==
    <<Piece(remaining, prefix_end, mode)>>
    \o BreakFrom(SubSeq(remaining, prefix_end + 1, Len(remaining)),
                 budget, style, mode, tt_fonts)

\* break_word
break_word(word, avail_width, style, mode, tt_fonts) ==
    BreakFrom(word,
              avail_width - (IF mode = "Hyphenate"
                             THEN measure_word(<<"-">>, style, tt_fonts) ELSE 0),
              style, mode, tt_fonts)

\* break_wide_words, one word: a newline and a word that fits stay; a wider
\* word becomes its pieces, the first of which keeps the leading space.
PiecesAsWords(pieces, word) ==
    [i \in 1 .. Len(pieces) |->
        Word(pieces[i], word.style, i = 1 /\ word.leading_space)]
BrokenWord(word, max_width, mode, tt_fonts) ==
    IF word.text = <<NL>> \/ measure_word(word.text, word.style, tt_fonts) <= max_width
    THEN <<word>>
    ELSE PiecesAsWords(break_word(word.text, max_width, word.style, mode, tt_fonts), word)

\* break_wide_words
RECURSIVE break_wide_words(_, _, _, _)
break_wide_words(words, max_width, mode, tt_fonts) ==
    IF words = <<>> THEN <<>>
    ELSE BrokenWord(words[1], max_width, mode, tt_fonts)
         \o break_wide_words(Tail(words), max_width, mode, tt_fonts)

\* generate_content_ops, the word list it lays out: broken for rect.width
\* unless word_break is Normal.
WordList(fl, width, tt_fonts) ==
    IF fl.word_break # "Normal"
    THEN break_wide_words(extract_words(fl.spans), width, fl.word_break, tt_fonts)
    ELSE extract_words(fl.spans)

\* What generate_content_ops returns, with what it leaves in self.cursor and
\* in tt_fonts.
FlowReturn(ops, result, used, cursor, tt_fonts) ==
    [ops |-> ops, result |-> result, used |-> used, cursor |-> cursor,
     tt_fonts |-> tt_fonts]

\* generate_content_ops, the width a line has with one more word.
Total(word, line_width, tt_fonts) ==
    line_width
    + (IF word.leading_space THEN measure_word(<<" ">>, word.style, tt_fonts) ELSE 0)
    + measure_word(word.text, word.style, tt_fonts)

\* generate_content_ops, the inner while: the end of the line that starts
\* at line_start; -1 stands for the return of BoxEmpty.
RECURSIVE LineEnd(_, _, _, _, _, _, _)
LineEnd(words, width, line_start, line_end, line_width, any_text_placed, tt_fonts) ==
    IF line_end >= Len(words) THEN line_end
    ELSE IF words[line_end + 1].text = <<NL>> THEN line_end + 1
    ELSE IF Total(words[line_end + 1], line_width, tt_fonts) > width
            /\ line_end > line_start
    THEN line_end
    ELSE IF Total(words[line_end + 1], line_width, tt_fonts) > width
    THEN (IF ~any_text_placed THEN -1 ELSE line_end + 1)
    ELSE LineEnd(words, width, line_start, line_end + 1,
                 Total(words[line_end + 1], line_width, tt_fonts),
                 any_text_placed, tt_fonts)

\* generate_content_ops: "x y Td" for the first line, "0 -line_height Td"
\* and current_y -= line_height for the others.
LinePositioned(s, line_height) ==
    IF s.is_first_line
    THEN [s EXCEPT !.output = Append(@, Op("Td", <<>>, <<>>, 8)),
                   !.is_first_line = FALSE]
    ELSE [s EXCEPT !.output = Append(@, Op("Td", <<>>, <<>>, 8)),
                   !.current_y = @ - line_height]

\* generate_content_ops: "/name size Tf" when the font or the size changes.
FontSet(s, style) ==
    IF s.active_font # style.font \/ s.active_size # style.font_size
    THEN [s EXCEPT !.output = Append(@, TfOp(pdf_font_name(style.font, s.tt_fonts))),
                   !.active_font = style.font,
                   !.active_size = style.font_size,
                   !.used = record_font(style.font, @)]
    ELSE s

\* emit_text with a TrueType face: the glyph ids in hex, recorded as used.
EmitHex(s, id, e) ==
    [s EXCEPT !.tt_fonts[id + 1] = e.font,
              !.output = Append(@, Op("Tj", <<>>, e.hex, 4 * Len(e.hex) + 6))]

\* emit_text
emit_text(s, text, font) ==
    IF font.kind = "Builtin"
    THEN [s EXCEPT !.output = Append(@, Op("Tj", <<>>, text, Len(text) + 6))]
    ELSE EmitHex(s, font.id, encode_text_hex(s.tt_fonts[font.id + 1], text))

\* generate_content_ops: the text shown for a word.
display_text(word, is_first_on_line) ==
    IF word.leading_space /\ ~is_first_on_line THEN <<" ">> \o word.text ELSE word.text

\* generate_content_ops, `for i in line_start..line_end`.
RECURSIVE EmitWords(_, _, _, _, _)
EmitWords(s, words, i, line_start, line_end) ==
    IF i >= line_end THEN s
    ELSE IF words[i + 1].text = <<NL>>
    THEN EmitWords(s, words, i + 1, line_start, line_end)
    ELSE EmitWords(emit_text(FontSet(s, words[i + 1].style),
                             display_text(words[i + 1], i = line_start),
                             words[i + 1].style.font),
                   words, i + 1, line_start, line_end)

\* generate_content_ops, the end of a line, with the cursor moved one word
\* on instead of to line_end.
LineAdvanceOneWord(s, line_end) ==
    [s EXCEPT !.any_text_placed = TRUE, !.cursor = @ + 1]

\* generate_content_ops, the end of a line: any_text_placed = true;
\* self.cursor = line_end.
LineAdvance(s, line_end) ==
    [s EXCEPT !.any_text_placed = TRUE, !.cursor = line_end]

\* generate_content_ops, the return of BoxFull with the cursor one past the
\* word that did not fit.
BoxFullReturnPastWord(s) ==
    FlowReturn(Append(s.output, Op("ET", <<>>, <<>>, 3)), "BoxFull", s.used,
               s.cursor + 1, s.tt_fonts)

\* generate_content_ops, `if next_y < bottom`: "ET" and BoxFull.
BoxFullReturn(s) ==
    FlowReturn(Append(s.output, Op("ET", <<>>, <<>>, 3)), "BoxFull", s.used,
               s.cursor, s.tt_fonts)

\* generate_content_ops, after the loop: "ET", and Stop when the cursor is
\* at the end of the list.
Finished(s, words) ==
    FlowReturn(Append(s.output, Op("ET", <<>>, <<>>, 3)),
               IF s.cursor >= Len(words) THEN "Stop" ELSE "BoxFull",
               s.used, s.cursor, s.tt_fonts)

\* generate_content_ops, the return of BoxEmpty with the output built so far
\* and the fonts recorded so far.
BoxEmptyReturnWithOutput(s) ==
    FlowReturn(Append(s.output, Op("ET", <<>>, <<>>, 3)), "BoxEmpty", s.used,
               s.cursor, s.tt_fonts)

\* generate_content_ops, `if !any_text_placed`: "ET" goes to the output, and
\* what is returned is Vec::new(), BoxEmpty and UsedFonts::default().
BoxEmptyReturn(s) ==
    FlowReturn(<<>>, "BoxEmpty", NoFontsUsed, s.cursor, s.tt_fonts)

\* generate_content_ops, the outer while.
RECURSIVE LayoutLines(_, _, _)
RECURSIVE PlaceLine(_, _, _, _)
LayoutLines(s, words, rect) ==
    IF s.cursor >= Len(words) THEN Finished(s, words)
    ELSE IF ~s.is_first_line
            /\ s.current_y - line_height_for(words[s.cursor + 1].style, s.tt_fonts)
               < rect.y - rect.height
    THEN BoxFullReturn(s)
    ELSE PlaceLine(s, words, rect,
                   LineEnd(words, rect.width, s.cursor, s.cursor, 0,
                           s.any_text_placed, s.tt_fonts))
PlaceLine(s, words, rect, line_end) ==
    IF line_end = -1
    THEN BoxEmptyReturn(s)
    ELSE IF line_end = s.cursor THEN Finished(s, words)
    ELSE LayoutLines(
            LineAdvance(
                EmitWords(LinePositioned(s, line_height_for(words[s.cursor + 1].style,
                                                            s.tt_fonts)),
                          words, s.cursor, s.cursor, line_end),
                line_end),
            words, rect)

\* generate_content_ops, before the loop: Stop for a flow at its end,
\* BoxEmpty when not even one line fits, else "BT" and the loop.
Layout(fl, rect, tt_fonts, words) ==
    IF fl.cursor >= Len(words)
    THEN FlowReturn(<<>>, "Stop", NoFontsUsed, fl.cursor, tt_fonts)
    ELSE IF line_height_for(words[fl.cursor + 1].style, tt_fonts) > rect.height
    THEN FlowReturn(<<>>, "BoxEmpty", NoFontsUsed, fl.cursor, tt_fonts)
    ELSE LayoutLines([cursor |-> fl.cursor,
                      output |-> <<Op("BT", <<>>, <<>>, 3)>>,
                      used |-> NoFontsUsed,
                      current_y |-> rect.y - 1000 * words[fl.cursor + 1].style.font_size,
                      is_first_line |-> TRUE,
                      any_text_placed |-> FALSE,
                      active_font |-> NoFont,
                      active_size |-> 0,
                      tt_fonts |-> tt_fonts],
                     words, rect)

\* TextFlow::generate_content_ops
generate_content_ops(fl, rect, tt_fonts) ==
    Layout(fl, rect, tt_fonts, WordList(fl, rect.width, tt_fonts))

\* TextFlow::is_finished: the cursor against the words as extract_words
\* gives them.
is_finished(fl) == fl.cursor >= Len(extract_words(fl.spans))

\* TextFlow::add_text
add_text(fl, text, style) ==
    [fl EXCEPT !.spans = Append(@, [text |-> text, style |-> style])]

(***************************************************************************)
(* Table (tables.rs).  The rows of the model have a fixed height           *)
(* (row.height is Some) and the text of a cell is one word that fits its   *)
(* column, so that wrap_text leaves it as its one line.                    *)
(***************************************************************************)
Cell(text, font) ==
    [text |-> text, style |-> [font |-> font, font_size |-> 10, overflow |-> "Clip"]]
Row(cells, height) == [cells |-> cells, height |-> height]

\* Table::new: a border of 0.5 pt.
Table(columns) == [columns |-> columns, border_width |-> 500]

\* TableCursor::new
TableCursor(rect) == [rect |-> rect, current_y |-> rect.y, first_row |-> TRUE]

\* TableCursor::reset
reset(cursor, rect) ==
    [cursor EXCEPT !.rect = rect, !.current_y = rect.y, !.first_row = TRUE]

\* TableCursor::is_first_row
is_first_row(cursor) == cursor.first_row

\* measure_row_height of a row with a fixed height.
measure_row_height(row) == row.height

\* emit_cell_text: nothing for an empty text, else as emit_text.
emit_cell_text(s, text, font) == IF text = <<>> THEN s ELSE emit_text(s, text, font)

\* render_cell: "q", the clip rectangle of Clip, "BT", the fill color, the
\* font (always set, and recorded), the position, the line, "ET", "Q".
render_cell(s, cell) ==
    [emit_cell_text([s EXCEPT !.output =
                             @ \o <<Op("q", <<>>, <<>>, 2)>>
                               \o (IF cell.style.overflow = "Clip"
                                   THEN <<Op("re", <<>>, <<>>, 16), Op("W", <<>>, <<>>, 2),
                                          Op("n", <<>>, <<>>, 2)>>
                                   ELSE <<>>)
                               \o <<Op("BT", <<>>, <<>>, 3), Op("rg", <<>>, <<>>, 9),
                                    TfOp(pdf_font_name(cell.style.font, s.tt_fonts)),
                                    Op("Td", <<>>, <<>>, 8)>>,
                         !.used = record_font(cell.style.font, @)],
               cell.text, cell.style.font)
        EXCEPT !.output = @ \o <<Op("ET", <<>>, <<>>, 3), Op("Q", <<>>, <<>>, 2)>>]

\* generate_row_ops, the loop over the columns: a column the row has no
\* cell for is passed over.
RECURSIVE RenderCells(_, _, _, _)
RenderCells(s, columns, row, col_idx) ==
    IF col_idx > Len(columns) THEN s
    ELSE RenderCells(IF col_idx <= Len(row.cells)
                     THEN render_cell(s, row.cells[col_idx]) ELSE s,
                     columns, row, col_idx + 1)

\* draw_row_borders: the outer rectangle and a divider after every column
\* but the last.
draw_row_borders(s, columns) ==
    [s EXCEPT !.output =
        @ \o <<Op("q", <<>>, <<>>, 2), Op("RG", <<>>, <<>>, 9), Op("w", <<>>, <<>>, 6),
               Op("re", <<>>, <<>>, 16), Op("S", <<>>, <<>>, 2)>>
          \o [i \in 1 .. (IF Len(columns) = 0 THEN 0 ELSE 3 * (Len(columns) - 1)) |->
                 IF i % 3 = 1 THEN Op("m", <<>>, <<>>, 8)
                 ELSE IF i % 3 = 2 THEN Op("l", <<>>, <<>>, 8)
                 ELSE Op("S", <<>>, <<>>, 2)]
          \o <<Op("Q", <<>>, <<>>, 2)>>]

\* What generate_row_ops returns, with what it leaves in the cursor and in
\* tt_fonts.
RowReturn(s, result, cursor) ==
    [ops |-> s.output, result |-> result, used |-> s.used, cursor |-> cursor,
     tt_fonts |-> s.tt_fonts]

\* generate_row_ops, a row that does not fit, answered with BoxFull
\* whatever the cursor's first_row says.
RowRefusedAsFull(cursor, tt_fonts) ==
    RowReturn([output |-> <<>>, used |-> NoFontsUsed, tt_fonts |-> tt_fonts],
              "BoxFull", cursor)

\* generate_row_ops, a row that does not fit: BoxEmpty for the first row of
\* the cursor, BoxFull otherwise, with Vec::new() and UsedFonts::default().
RowRefused(cursor, tt_fonts) ==
    RowReturn([output |-> <<>>, used |-> NoFontsUsed, tt_fonts |-> tt_fonts],
              IF cursor.first_row THEN "BoxEmpty" ELSE "BoxFull", cursor)

\* generate_row_ops, a row that fits, with first_row left as it was.
RowPlacedFirstRowKept(table, row, cursor, s) ==
    RowReturn(IF table.border_width > 0
              THEN draw_row_borders(RenderCells(s, table.columns, row, 1), table.columns)
              ELSE RenderCells(s, table.columns, row, 1),
              "Stop",
              [cursor EXCEPT !.current_y = @ - measure_row_height(row)])

\* generate_row_ops, a row that fits: the cells, the borders, and the
\* cursor moved down by the row.
RowPlaced(table, row, cursor, s) ==
    RowReturn(IF table.border_width > 0
              THEN draw_row_borders(RenderCells(s, table.columns, row, 1), table.columns)
              ELSE RenderCells(s, table.columns, row, 1),
              "Stop",
              [cursor EXCEPT !.current_y = @ - measure_row_height(row),
                             !.first_row = FALSE])

\* Table::generate_row_ops
generate_row_ops(table, row, cursor, tt_fonts) ==
    IF cursor.current_y - measure_row_height(row) < cursor.rect.y - cursor.rect.height
    THEN RowRefused(cursor, tt_fonts)
    ELSE RowPlaced(table, row, cursor,
                   [output |-> <<>>, used |-> NoFontsUsed, tt_fonts |-> tt_fonts])

(***************************************************************************)
(* PdfDocument (document.rs): the operations as functions on the machine.  *)
(***************************************************************************)
CATALOG_OBJ == <<1, 0>>
PAGES_OBJ == <<2, 0>>
FIRST_PAGE_OBJ_NUM == 3

\* A US Letter page, in 1/1000 pt.
LetterWidth == 612000
LetterHeight == 792000

\* PageBuilder { .. } of begin_page.
NewPage(width, height) ==
    [open |-> TRUE, width |-> width, height |-> height, content_ops |-> <<>>, used_fonts |-> {},
     used_truetype_fonts |-> {}, used_images |-> {}]

\* PdfDocument::make_stream
make_stream(m, kind, data_len) ==
    IF m.compress
    THEN [kind |-> kind, flate |-> TRUE, length |-> FlateLen(data_len)]
    ELSE [kind |-> kind, flate |-> FALSE, length |-> data_len]

\* PdfDocument::set_info
set_info(m, key, value) == [m EXCEPT !.info = Append(@, <<key, value>>)]

\* PdfDocument::set_compression
set_compression(m, enabled) == [m EXCEPT !.compress = enabled]

\* PdfDocument::load_font_bytes: the counter moves before the bytes are parsed.
load_font_bytes(m, data) ==
    LET font_num == m.next_font_num
        m1 == [m EXCEPT !.next_font_num = @ + 1]
        r == from_bytes(data, font_num)
    IN IF r.ok
       THEN [m |-> [m1 EXCEPT !.truetype_fonts = Append(@, r.font)],
             ok |-> TRUE, id |-> Len(m.truetype_fonts)]
       ELSE [m |-> m1, ok |-> FALSE, id |-> 0]

\* PdfDocument::load_image_bytes
load_image_bytes(m, data) ==
    LET r == load_image(data)
    IN IF r.ok
       THEN [m |-> [m EXCEPT !.images = Append(@, r.image)],
             ok |-> TRUE, id |-> Len(m.images)]
       ELSE [m |-> m, ok |-> FALSE, id |-> 0]

\* PdfDocument::place_text: 12pt Helvetica.
place_text(m, text) ==
    [m EXCEPT !.current_page.used_fonts = @ \cup {"Helvetica"},
              !.current_page.content_ops =
                  @ \o <<Op("BT", <<>>, <<>>, 3), TfOp(pdf_name("Helvetica")),
                         Op("Td", <<>>, <<>>, 8), Op("Tj", <<>>, text, Len(text) + 6),
                         Op("ET", <<>>, <<>>, 3)>>]

\* PdfDocument::place_text_styled with a built-in font.
place_text_styled_builtin(m, text, b) ==
    [m EXCEPT !.current_page.used_fonts = @ \cup {b},
              !.current_page.content_ops =
                  @ \o <<Op("BT", <<>>, <<>>, 3), TfOp(pdf_name(b)),
                         Op("Td", <<>>, <<>>, 8), Op("Tj", <<>>, text, Len(text) + 6),
                         Op("ET", <<>>, <<>>, 3)>>]

\* PdfDocument::place_text_styled with a TrueType face (handle id, from 0).
place_text_styled_truetype(m, text, id) ==
    LET e == encode_text_hex(m.truetype_fonts[id + 1], text)
    IN [m EXCEPT !.truetype_fonts[id + 1] = e.font,
                 !.current_page.used_truetype_fonts = @ \cup {id},
                 !.current_page.content_ops =
                     @ \o <<Op("BT", <<>>, <<>>, 3), TfOp(e.font.pdf_name),
                            Op("Td", <<>>, <<>>, 8),
                            Op("Tj", <<>>, e.hex, 4 * Len(e.hex) + 6),
                            Op("ET", <<>>, <<>>, 3)>>]

\* fit_textflow that takes the content and drops the fonts it used.
fit_textflow_fonts_dropped(m, g) ==
    [m EXCEPT !.truetype_fonts = g.tt_fonts,
              !.current_page.content_ops = @ \o g.ops]

\* PdfDocument::fit_textflow, g being what generate_content_ops returned for
\* the flow, the rect and self.truetype_fonts.
fit_textflow(m, g) ==
    [m EXCEPT !.truetype_fonts = g.tt_fonts,
              !.current_page.content_ops = @ \o g.ops,
              !.current_page.used_fonts = @ \cup g.used.builtin,
              !.current_page.used_truetype_fonts = @ \cup g.used.truetype]

\* PdfDocument::fit_row, g being what generate_row_ops returned.
fit_row(m, g) ==
    [m EXCEPT !.truetype_fonts = g.tt_fonts,
              !.current_page.content_ops = @ \o g.ops,
              !.current_page.used_fonts = @ \cup g.used.builtin,
              !.current_page.used_truetype_fonts = @ \cup g.used.truetype]

\* An ensure_image_obj_ids that takes one number for an image, mask or not.
ensure_image_obj_ids_one_number(m, idx) ==
    IF idx \in DOMAIN m.image_obj_ids THEN m
    ELSE LET xobject == <<m.next_obj_num, 0>>
             has == m.images[idx + 1].smask_data
             smask == IF has THEN <<m.next_obj_num + 1, 0>> ELSE NoId
         IN [m EXCEPT !.next_obj_num = @ + 1,
                      !.next_image_num = @ + 1,
                      !.image_obj_ids =
                          MapPut(@, idx, [xobject |-> xobject, smask |-> smask,
                                          pdf_name |-> <<"Im", m.next_image_num>>])]

\* PdfDocument::ensure_image_obj_ids
ensure_image_obj_ids(m, idx) ==
    IF idx \in DOMAIN m.image_obj_ids THEN m
    ELSE LET xobject == <<m.next_obj_num, 0>>
             has == m.images[idx + 1].smask_data
             smask == IF has THEN <<m.next_obj_num + 1, 0>> ELSE NoId
         IN [m EXCEPT !.next_obj_num = @ + (IF has THEN 2 ELSE 1),
                      !.next_image_num = @ + 1,
                      !.image_obj_ids =
                          MapPut(@, idx, [xobject |-> xobject, smask |-> smask,
                                          pdf_name |-> <<"Im", m.next_image_num>>])]

\* PdfDocument::place_image: "q", the cm matrix, "/ImN Do", "Q".
place_image(m, idx) ==
    LET m1 == ensure_image_obj_ids(m, idx)
        name == m1.image_obj_ids[idx].pdf_name
    IN [m1 EXCEPT !.current_page.used_images = @ \cup {idx},
                  !.current_page.content_ops =
                      @ \o <<Op("q", <<>>, <<>>, 2), Op("cm", <<>>, <<>>, 20),
                             Op("Do", name, <<>>, 5 + Digits(name[2])),
                             Op("Q", <<>>, <<>>, 2)>>]

\* A graphics operator whose bytes go to the sink when it is called, as a
\* stream of their own.
graphics_op_written_at_once(m, o) ==
    write_object([m EXCEPT !.next_obj_num = @ + 1], <<m.next_obj_num, 0>>,
                 make_stream(m, "Content", 2) @@ [ops |-> <<Op(o, <<>>, <<>>, 2)>>])

\* The graphics operators (set_stroke_color .. restore_state): each appends
\* its operator to content_ops and touches nothing else.
graphics_op(m, o) ==
    [m EXCEPT !.current_page.content_ops = @ \o <<Op(o, <<>>, <<>>, 2)>>]

\* ensure_font_written, after write_object(id, &obj)?: the font is entered
\* in font_obj_ids.
FontWritten(m, font, id) ==
    IF m.err THEN m ELSE [m EXCEPT !.font_obj_ids = MapPut(@, font, id)]

\* PdfDocument::ensure_font_written: the id is taken and the object written
\* before the font is entered in font_obj_ids.
ensure_font_written(m, font) ==
    IF m.err \/ font \in DOMAIN m.font_obj_ids THEN m
    ELSE FontWritten(write_object([m EXCEPT !.next_obj_num = @ + 1],
                                  <<m.next_obj_num, 0>>,
                                  [kind |-> "Type1Font", font |-> font]),
                     font, <<m.next_obj_num, 0>>)

\* PdfDocument::ensure_tt_font_obj_ids: five ids in the order type0, cid_font,
\* descriptor, font_file, tounicode.
ensure_tt_font_obj_ids(m, idx) ==
    IF m.err \/ idx \in DOMAIN m.truetype_font_obj_ids THEN m
    ELSE LET n == m.next_obj_num
         IN [m EXCEPT !.next_obj_num = @ + 5,
                      !.truetype_font_obj_ids =
                          MapPut(@, idx, [type0 |-> <<n, 0>>, cid_font |-> <<n + 1, 0>>,
                                          descriptor |-> <<n + 2, 0>>,
                                          font_file |-> <<n + 3, 0>>,
                                          tounicode |-> <<n + 4, 0>>])]

\* write_image_xobject, after both objects are written: the image is
\* entered in written_images.
ImageWritten(m, idx) ==
    IF m.err THEN m ELSE [m EXCEPT !.written_images = @ \cup {idx}]

\* The SMask XObject of write_image_xobject, written first if the image has
\* alpha data.
WriteSMask(m, idx) ==
    LET img == m.images[idx + 1]
        ids == m.image_obj_ids[idx]
    IN IF ids.smask # NoId /\ img.smask_data
       THEN write_object(m, ids.smask,
                         make_stream(m, "SMask", img.len) @@ [image |-> idx])
       ELSE m

\* The image XObject of write_image_xobject.  JPEG data goes out as it is
\* under DCTDecode; PNG pixels go through make_stream.
ImageObject(m, idx) ==
    LET img == m.images[idx + 1]
    IN (IF img.format = "Jpeg"
        THEN [kind |-> "Image", flate |-> FALSE, length |-> img.len]
        ELSE make_stream(m, "Image", img.len))
       @@ [image |-> idx, smask |-> m.image_obj_ids[idx].smask]

\* PdfDocument::write_image_xobject
write_image_xobject(m, idx) ==
    IF m.err \/ idx \in m.written_images THEN m
    ELSE ImageWritten(write_object(WriteSMask(m, idx), m.image_obj_ids[idx].xobject,
                                   ImageObject(m, idx)),
                      idx)

RECURSIVE EnsureFonts(_, _)
EnsureFonts(m, fonts) ==
    IF fonts = <<>> THEN m
    ELSE EnsureFonts(ensure_font_written(m, fonts[1]), Tail(fonts))

RECURSIVE EnsureTrueType(_, _)
EnsureTrueType(m, idxs) ==
    IF idxs = <<>> THEN m
    ELSE EnsureTrueType(ensure_tt_font_obj_ids(m, idxs[1]), Tail(idxs))

RECURSIVE WriteImages(_, _)
WriteImages(m, idxs) ==
    IF idxs = <<>> THEN m
    ELSE WriteImages(write_image_xobject(m, idxs[1]), Tail(idxs))

\* A page dictionary whose MediaBox is that of a US Letter page.
PageDictLetterBox(m, page, content_id) ==
    [kind |-> "Page", parent |-> PAGES_OBJ,
     media_box |-> <<0, 0, LetterWidth, LetterHeight>>, contents |-> content_id,
     fonts |-> [i \in DOMAIN FontsInOrder(page.used_fonts) |->
                  <<pdf_name(FontsInOrder(page.used_fonts)[i]),
                    m.font_obj_ids[FontsInOrder(page.used_fonts)[i]]>>],
     has_xobject |-> FALSE, xobjects |-> <<>>]

\* The page dictionary of end_page: /Contents and /Resources with the Font
\* dictionary (built-in entries, then TrueType entries) and, if the page used
\* an image, the XObject dictionary.
PageDict(m, page, content_id) ==
    LET fonts == FontsInOrder(page.used_fonts)
        tts == SortedSeq(page.used_truetype_fonts)
        used_images == SortedSeq(page.used_images)
        font_entries ==
            [i \in DOMAIN fonts |-> <<pdf_name(fonts[i]), m.font_obj_ids[fonts[i]]>>]
        tt_entries ==
            [i \in DOMAIN tts |->
                <<m.truetype_fonts[tts[i] + 1].pdf_name,
                  m.truetype_font_obj_ids[tts[i]].type0>>]
        xobject_entries ==
            [i \in DOMAIN used_images |->
                <<m.image_obj_ids[used_images[i]].pdf_name,
                  m.image_obj_ids[used_images[i]].xobject>>]
    IN [kind |-> "Page", parent |-> PAGES_OBJ,
        media_box |-> <<0, 0, page.width, page.height>>, contents |-> content_id,
        fonts |-> font_entries \o tt_entries,
        has_xobject |-> xobject_entries # <<>>,
        xobjects |-> xobject_entries]

\* end_page, the end: page_obj_ids.push(page_id).
PagePushed(m, page_id) ==
    IF m.err THEN m ELSE [m EXCEPT !.page_obj_ids = Append(@, page_id)]

\* end_page, after the content stream: the page dictionary is written.
WritePageDict(m, page, content_id, page_id) ==
    IF m.err THEN m
    ELSE PagePushed(write_object(m, page_id, PageDict(m, page, content_id)), page_id)

\* end_page, after the resources: two ids are taken and the content stream
\* is written.
WriteContent(m, page) ==
    IF m.err THEN m
    ELSE WritePageDict(
            write_object([m EXCEPT !.next_obj_num = @ + 2], <<m.next_obj_num, 0>>,
                         make_stream(m, "Content", OpsLen(page.content_ops))
                             @@ [ops |-> page.content_ops]),
            page, <<m.next_obj_num, 0>>, <<m.next_obj_num + 1, 0>>)

\* PdfDocument::end_page
end_page(m) ==
    WriteContent(
        WriteImages(
            EnsureTrueType(
                EnsureFonts([m EXCEPT !.current_page = NoPage],
                            FontsInOrder(m.current_page.used_fonts)),
                SortedSeq(m.current_page.used_truetype_fonts)),
            SortedSeq(m.current_page.used_images)),
        m.current_page)

\* PdfDocument::begin_page: `let _ = self.end_page();` drops the Result, so
\* the machine goes on with err cleared; then the fresh PageBuilder.
begin_page(m, width, height) ==
    [(IF m.current_page.open THEN end_page(m) ELSE m)
        EXCEPT !.err = FALSE, !.current_page = NewPage(width, height)]

\* The five objects of one face written top-down, the Type0 font first.
WriteFaceTopDown(m, idx) ==
    LET ids == m.truetype_font_obj_ids[idx]
        font == m.truetype_fonts[idx + 1]
        m1 == write_object(m, ids.type0,
                           [kind |-> "Type0", face |-> idx, descendant |-> ids.cid_font,
                            tounicode |-> ids.tounicode])
        m2 == write_object(m1, ids.cid_font,
                           [kind |-> "CIDFontType2", face |-> idx,
                            descriptor |-> ids.descriptor, w |-> build_w_array(font)])
        m3 == write_object(m2, ids.descriptor,
                           [kind |-> "FontDescriptor", face |-> idx,
                            font_file |-> ids.font_file])
        m4 == write_object(m3, ids.font_file,
                           make_stream(m, "FontFile2", 400) @@ [face |-> idx])
    IN write_object(m4, ids.tounicode,
                    make_stream(m, "ToUnicode", 300) @@ [face |-> idx])

\* The five objects of one face, in the order write_truetype_fonts writes them.
WriteFace(m, idx) ==
    LET ids == m.truetype_font_obj_ids[idx]
        font == m.truetype_fonts[idx + 1]
        m1 == write_object(m, ids.font_file,
                           make_stream(m, "FontFile2", 400) @@ [face |-> idx])
        m2 == write_object(m1, ids.descriptor,
                           [kind |-> "FontDescriptor", face |-> idx,
                            font_file |-> ids.font_file])
        m3 == write_object(m2, ids.cid_font,
                           [kind |-> "CIDFontType2", face |-> idx,
                            descriptor |-> ids.descriptor, w |-> build_w_array(font)])
        m4 == write_object(m3, ids.tounicode,
                           make_stream(m, "ToUnicode", 300) @@ [face |-> idx])
    IN write_object(m4, ids.type0,
                    [kind |-> "Type0", face |-> idx, descendant |-> ids.cid_font,
                     tounicode |-> ids.tounicode])

RECURSIVE WriteFaces(_, _)
WriteFaces(m, idxs) ==
    IF idxs = <<>> THEN m ELSE WriteFaces(WriteFace(m, idxs[1]), Tail(idxs))

\* write_truetype_fonts that writes nothing.
write_truetype_fonts_nothing(m) == m

\* PdfDocument::write_truetype_fonts
write_truetype_fonts(m) ==
    IF m.err THEN m ELSE WriteFaces(m, SortedSeq(DOMAIN m.truetype_font_obj_ids))

\* The Pages tree with the pages the caller began as /Count.
PagesDictCountsBegun(ids) ==
    [kind |-> "Pages", kids |-> ids, count |-> Len(log)]

\* The Pages tree of end_document: /Kids and /Count from page_obj_ids.
PagesDict(ids) ==
    [kind |-> "Pages", kids |-> ids, count |-> Len(ids)]

\* end_document: the info dictionary, written under a new id if set_info
\* was called.
WriteInfo(m) ==
    IF m.err \/ m.info = <<>> THEN m
    ELSE write_object([m EXCEPT !.next_obj_num = @ + 1], <<m.next_obj_num, 0>>,
                      [kind |-> "Info", entries |-> m.info])

\* end_document: the pages tree (object 2), then the catalog (object 1).
WritePagesAndCatalog(m) ==
    write_object(write_object(m, PAGES_OBJ, PagesDict(m.page_obj_ids)),
                 CATALOG_OBJ, [kind |-> "Catalog", pages |-> PAGES_OBJ])

\* end_document after the pages and the TrueType objects.
FinishDocument(m) ==
    write_xref_and_trailer(WritePagesAndCatalog(WriteInfo(m)), CATALOG_OBJ,
                           IF m.info = <<>> THEN NoId ELSE <<m.next_obj_num, 0>>)

\* PdfDocument::end_document
end_document(m) ==
    FinishDocument(write_truetype_fonts(IF m.current_page.open THEN end_page(m) ELSE m))

\* page_count(): the number of pages completed so far.
page_count == Len(page_obj_ids)

(***************************************************************************)
(* Values the variables of the other components keep in a specification    *)
(* that does not use them.                                                 *)
(***************************************************************************)
NoFlow == [spans |-> <<>>, word_break |-> "BreakAll", cursor |-> 0]
NoCursor == [rect |-> [y |-> 0, height |-> 0], current_y |-> 0, first_row |-> TRUE]
NoTableHist == [result |-> "none"]

\* The caller's record of its table loop: the calls it made on the cursor,
\* the rows placed since the cursor was created or last reset and their
\* heights together, the height of the row of the last fit_row call and
\* what the call returned ("none" for a cursor just created or reset).
NewTableHist == [calls |-> 0, rows |-> 0, dropped |-> 0, height |-> 0, result |-> "none"]
RowFitted(h, row, g) ==
    [calls |-> h.calls + 1,
     rows |-> h.rows + (IF g.result = "Stop" THEN 1 ELSE 0),
     dropped |-> h.dropped + (IF g.result = "Stop" THEN measure_row_height(row) ELSE 0),
     height |-> measure_row_height(row),
     result |-> g.result]
CursorReset(h) ==
    [calls |-> h.calls + 1, rows |-> 0, dropped |-> 0, height |-> 0, result |-> "none"]
NoFrame == [y |-> 0, width |-> 0, height |-> 0]
NoBreak == [pieces |-> <<>>]

\* A specification that has no table loop, no kept rect and no break_word
\* call of its own.
NoFormat == [fn |-> "none", arg |-> <<>>, called |-> FALSE, text |-> <<>>]
InitUnused ==
    table_hist = NoTableHist /\ frame = NoFrame /\ bw = NoBreak /\ fmt = NoFormat

\* The caller's record of the fit_textflow calls on the flow: the operands
\* of the Tj operators it got, the rect widths it gave, whether a call has
\* returned BoxFull, and the result of the last call ("none" once text has
\* been added since).
NoHist == [emitted |-> <<>>, widths |-> {}, width |-> 0, paged |-> FALSE,
           result |-> "none"]

\* The operands of the Tj operators among content operators.
RECURSIVE TjOperands(_)
TjOperands(ops) ==
    IF ops = <<>> THEN <<>>
    ELSE (IF ops[1].op = "Tj" THEN <<ops[1].text>> ELSE <<>>) \o TjOperands(Tail(ops))

\* The caller's record after a fit_textflow call that returned g.
Fitted(h, rect, g) ==
    [emitted |-> h.emitted \o TjOperands(g.ops),
     widths |-> h.widths \cup {rect.width},
     width |-> rect.width,
     paged |-> h.paged \/ g.result = "BoxFull",
     result |-> g.result]

InitWriterVars ==
    /\ out = <<>>
    /\ offset = 0
    /\ xref_entries = <<>>

\* PdfDocument::new, apart from the writer.
InitDocVars ==
    /\ info = <<>>
    /\ page_obj_ids = <<>>
    /\ current_page = NoPage
    /\ next_obj_num = FIRST_PAGE_OBJ_NUM
    /\ font_obj_ids = EmptyMap
    /\ truetype_fonts = <<>>
    /\ truetype_font_obj_ids = EmptyMap
    /\ next_font_num = 15
    /\ compress = FALSE
    /\ images = <<>>
    /\ image_obj_ids = EmptyMap
    /\ written_images = {}
    /\ next_image_num = 1
    /\ overlay_streams = EmptyMap

InitCaller ==
    /\ status = "open"
    /\ sink_failures = 0
    /\ log = <<>>

\* The sink may refuse any one write of an operation that makes n of them,
\* while the run's budget of failures lasts.
FailChoices(n) ==
    IF sink_failures < MaxSinkFailures
    THEN 0 .. (IF n < MaxFailAt THEN n ELSE MaxFailAt)
    ELSE {0}

\* What the caller sees and does after an operation that returns io::Result:
\* it stops using the writer once an operation has returned Err.
Returned(m, done) ==
    /\ status' = IF m.err THEN "failed" ELSE IF done THEN "done" ELSE "open"
    /\ sink_failures' = sink_failures + (IF m.err THEN 1 ELSE 0)

(***************************************************************************)
(* SpecWriter: a caller drives PdfWriter directly, as writer_test.rs does. *)
(***************************************************************************)
WriterBodies == {[kind |-> "Name"], [kind |-> "Catalog"]}
WriterNums == 1 .. (MaxWriterObjs + 1)
WriterGens == {0, 1}

WrittenNums == {xref_entries[i][1] : i \in DOMAIN xref_entries}

W_write_header ==
    /\ status = "open"
    /\ out = <<>> /\ xref_entries = <<>>
    /\ \E f \in FailChoices(CallsOf(write_header(Pack(0)))) :
         LET m == write_header(Pack(f))
         IN Unpack(m) /\ Returned(m, FALSE)
    /\ UNCHANGED <<log, flow, flow_hist, tcursor, table_hist, frame, bw, fmt>>

\* The caller numbers its objects itself; it uses no number twice.
W_write_object ==
    /\ status = "open"
    /\ Len(xref_entries) < MaxWriterObjs
    /\ \E num \in WriterNums \ WrittenNums, gen \in WriterGens, obj \in WriterBodies :
         \E f \in FailChoices(CallsOf(write_object(Pack(0), <<num, gen>>, obj))) :
           LET m == write_object(Pack(f), <<num, gen>>, obj)
           IN Unpack(m) /\ Returned(m, FALSE)
    /\ UNCHANGED <<log, flow, flow_hist, tcursor, table_hist, frame, bw, fmt>>

W_write_xref_and_trailer ==
    /\ status = "open"
    /\ \E root \in {<<1, 0>>}, inf \in {NoId, <<2, 0>>} :
         \E f \in FailChoices(CallsOf(write_xref_and_trailer(Pack(0), root, inf))) :
           LET m == write_xref_and_trailer(Pack(f), root, inf)
           IN Unpack(m) /\ Returned(m, TRUE)
    /\ UNCHANGED <<log, flow, flow_hist, tcursor, table_hist, frame, bw, fmt>>

InitWriter ==
    /\ InitWriterVars /\ InitDocVars /\ InitCaller
    /\ flow = NoFlow /\ flow_hist = NoHist /\ tcursor = NoCursor
    /\ InitUnused

NextWriter ==
    \/ W_write_header
    \/ W_write_object
    \/ W_write_xref_and_trailer

SpecWriter == InitWriter /\ [][NextWriter]_vars

(***************************************************************************)
(* Reading the output back: the objects, the xref table and the trailer    *)
(* that are in the file.                                                   *)
(***************************************************************************)
\* The places where a complete indirect object starts: header, body, endobj.
ObjectsAt(o) ==
    {i \in DOMAIN o : /\ o[i].t = "objhdr"
                      /\ i + 2 <= Len(o)
                      /\ o[i + 1].t = "body"
                      /\ o[i + 2].t = "endobj"}

XrefEntriesAt(o) == {j \in DOMAIN o : o[j].t = "xrefentry"}

\* Entry j is the in-use entry of the object at i: right number, ten digits
\* that read as the position of "N G obj", the object's generation.
EntryPointsAt(o, j, i) ==
    /\ o[j].num = o[i].num
    /\ o[j].kind = "n"
    /\ o[j].len = 20
    /\ o[j].off = PosOf(o, i)

StartxrefExact(o) ==
    \A k \in DOMAIN o :
        o[k].t = "startxrefval" =>
            \E x \in DOMAIN o : o[x].t = "xref" /\ o[k].value = PosOf(o, x)

C2_OffsetsExactGenerationZero ==
    status = "done" =>
        /\ \A i \in ObjectsAt(out) :
              \E j \in XrefEntriesAt(out) :
                  EntryPointsAt(out, j, i) /\ out[j].gen = 0
        /\ StartxrefExact(out)

(***************************************************************************)
(* Spec: a caller drives PdfDocument over a sink that may refuse a write.  *)
(* `log` is the caller's own record of the pages it began and of what it   *)
(* placed on each.                                                         *)
(***************************************************************************)
DocText == <<"a", "b">>
FontBytes == {"ttf"}
ImageBytes == {"jpeg", "png_rgba", "bad"}
GraphicsOps == {"S"}

\* The flow of the document's caller: two words in two fonts, each as wide
\* as a line of the rect it is laid out in; the rect holds one line or two.
DocFlow ==
    add_text(add_text(NoFlow, <<"a">>, TextStyle(Builtin("Helvetica"), 10)),
             <<"b">>, TextStyle(Builtin("TimesRoman"), 10))
DocWidth == 6000
DocHeights == {12000, 24000}

\* The table of the document's caller: two columns in a rect that holds one
\* of its rows of 15 pt; a row of 25 pt never fits.
DocTable == Table(<<100000, 100000>>)
DocTableRect == Rect(RectY, 200000, 20000)
DocRowHeights == {15000, 25000}

PageOpen == status = "open" /\ current_page.open
RECURSIVE Calls(_)
Calls(l) == IF l = <<>> THEN 0 ELSE l[1].n + Calls(Tail(l))
CanPlace == PageOpen /\ Calls(log) < MaxOps

\* A call that writes nothing to the sink.
Called(m) ==
    /\ Unpack(m)
    /\ UNCHANGED <<status, sink_failures>>

\* A content call on the open page, entered in the caller's log.
PlacedOn(m) ==
    /\ Called(m)
    /\ log' = [log EXCEPT ![Len(log)] =
                  [content |-> m.current_page.content_ops, n |-> @.n + 1]]

\* A content call that has nothing to do with the flow or the table.
Placed(m) ==
    /\ PlacedOn(m)
    /\ UNCHANGED <<flow, flow_hist, tcursor, table_hist, frame, bw, fmt>>

D_set_info ==
    /\ status = "open"
    /\ Len(info) < MaxInfo
    /\ Called(set_info(Pack(0), "Title", "t"))
    /\ UNCHANGED <<log, flow, flow_hist, tcursor, table_hist, frame, bw, fmt>>

\* The caller settles compression before it begins its first page.
D_set_compression ==
    /\ status = "open"
    /\ log = <<>>
    /\ \E enabled \in BOOLEAN :
         Called(set_compression(Pack(0), enabled))
    /\ UNCHANGED <<log, flow, flow_hist, tcursor, table_hist, frame, bw, fmt>>

\* The caller loads its faces and images before it begins its first page.
D_load_font_bytes ==
    /\ status = "open"
    /\ log = <<>>
    /\ next_font_num - 15 < MaxFontLoads
    /\ Len(truetype_fonts) < MaxFonts
    /\ \E data \in FontBytes :
         Called(load_font_bytes(Pack(0), data).m)
    /\ UNCHANGED <<log, flow, flow_hist, tcursor, table_hist, frame, bw, fmt>>

D_load_image_bytes ==
    /\ status = "open"
    /\ log = <<>>
    /\ Len(images) < MaxImages
    /\ \E data \in ImageBytes :
         Called(load_image_bytes(Pack(0), data).m)
    /\ UNCHANGED <<log, flow, flow_hist, tcursor, table_hist, frame, bw, fmt>>

\* begin_page returns &mut Self: whatever the automatic close met, the
\* caller is told nothing and goes on.
D_begin_page ==
    /\ status = "open"
    /\ Len(log) < MaxPages
    /\ \E f \in FailChoices(IF current_page.open THEN CallsOf(end_page(Pack(0))) ELSE 0) :
         /\ Unpack(begin_page(Pack(f), LetterWidth, LetterHeight))
         /\ sink_failures' = sink_failures
                + (IF current_page.open /\ end_page(Pack(f)).err THEN 1 ELSE 0)
    /\ log' = Append(log, [content |-> <<>>, n |-> 0])
    /\ UNCHANGED <<status, flow, flow_hist, tcursor, table_hist, frame, bw, fmt>>

D_place_text ==
    /\ CanPlace
    /\ Placed(place_text(Pack(0), DocText))

D_place_text_styled ==
    /\ CanPlace
    /\ \/ \E b \in BuiltinFonts :
            Placed(place_text_styled_builtin(Pack(0), DocText, b))
       \/ \E id \in 0 .. (Len(truetype_fonts) - 1) :
            Placed(place_text_styled_truetype(Pack(0), DocText, id))

\* The caller lays its flow out in a rect of the open page.
D_fit_textflow ==
    /\ CanPlace
    /\ \E h \in DocHeights :
         LET g == generate_content_ops(flow, Rect(RectY, DocWidth, h), truetype_fonts)
         IN /\ PlacedOn(fit_textflow(Pack(0), g))
            /\ flow' = [flow EXCEPT !.cursor = g.cursor]
            /\ flow_hist' = Fitted(flow_hist, Rect(RectY, DocWidth, h), g)
    /\ UNCHANGED <<tcursor, table_hist, frame, bw, fmt>>

\* The caller places a row of its table: one cell, in Helvetica or in a
\* face it has loaded.
D_fit_row ==
    /\ CanPlace
    /\ \E font \in {Builtin("Helvetica")}
                   \cup {TrueType(id) : id \in 0 .. (Len(truetype_fonts) - 1)},
          height \in DocRowHeights :
         LET g == generate_row_ops(DocTable, Row(<<Cell(DocText, font)>>, height),
                                   tcursor, truetype_fonts)
         IN /\ PlacedOn(fit_row(Pack(0), g))
            /\ tcursor' = g.cursor
    /\ UNCHANGED <<flow, flow_hist, table_hist, frame, bw, fmt>>

D_place_image ==
    /\ CanPlace
    /\ \E idx \in 0 .. (Len(images) - 1) :
         Placed(place_image(Pack(0), idx))

D_graphics_op ==
    /\ CanPlace
    /\ \E o \in GraphicsOps : Placed(graphics_op(Pack(0), o))

D_end_page ==
    /\ PageOpen
    /\ \E f \in FailChoices(CallsOf(end_page(Pack(0)))) :
         LET m == end_page(Pack(f))
         IN Unpack(m) /\ Returned(m, FALSE)
    /\ UNCHANGED <<log, flow, flow_hist, tcursor, table_hist, frame, bw, fmt>>

D_end_document ==
    /\ status = "open"
    /\ \E f \in FailChoices(CallsOf(end_document(Pack(0)))) :
         LET m == end_document(Pack(f))
         IN Unpack(m) /\ Returned(m, TRUE)
    /\ UNCHANGED <<log, flow, flow_hist, tcursor, table_hist, frame, bw, fmt>>

\* PdfDocument::new has written the header.
Init ==
    /\ LET m == write_header([out |-> <<>>, offset |-> 0, calls |-> 0, fail |-> 0,
                              err |-> FALSE])
       IN out = m.out /\ offset = m.offset
    /\ xref_entries = <<>>
    /\ InitDocVars /\ InitCaller
    /\ flow = DocFlow /\ flow_hist = NoHist /\ tcursor = TableCursor(DocTableRect)
    /\ InitUnused

Next ==
    \/ D_set_info
    \/ D_set_compression
    \/ D_load_font_bytes
    \/ D_load_image_bytes
    \/ D_begin_page
    \/ D_place_text
    \/ D_place_text_styled
    \/ D_fit_textflow
    \/ D_fit_row
    \/ D_place_image
    \/ D_graphics_op
    \/ D_end_page
    \/ D_end_document

Spec == Init /\ [][Next]_vars

(***************************************************************************)
(* SpecFlow: a caller builds a TextFlow with add_text and lays it out with *)
(* fit_textflow, rect after rect, as textflow_test.rs does.  One TrueType  *)
(* face has been loaded.                                                   *)
(***************************************************************************)
FlowChars == {"a", "b", " ", NL}
FlowTexts == UNION {[1 .. n -> FlowChars] : n \in 1 .. MaxTextLen}
FlowStyles == {TextStyle(Builtin("Helvetica"), 10), TextStyle(TrueType(0), 10)}
WordBreaks == {"Normal", "BreakAll", "Hyphenate"}
FlowWidths == {6000, 12000}
FlowHeights == {9000, 12000, 24000}

RECURSIVE SpanChars(_)
SpanChars(spans) ==
    IF spans = <<>> THEN 0 ELSE Len(spans[1].text) + SpanChars(Tail(spans))

F_add_text ==
    /\ Len(flow.spans) < MaxSpans
    /\ \E text \in FlowTexts, style \in FlowStyles :
         /\ SpanChars(flow.spans) + Len(text) <= MaxTextLen
         /\ flow' = add_text(flow, text, style)
    /\ flow_hist' = [flow_hist EXCEPT !.result = "none"]
    /\ UNCHANGED <<writerVars, docVars, status, sink_failures, log, tcursor,
                   table_hist, frame, bw, fmt>>

\* PdfDocument::fit_textflow on the open page: generate_content_ops moves
\* the cursor and records the glyphs it used, and the page takes the content
\* and the fonts.
F_fit_textflow ==
    /\ \E w \in FlowWidths, h \in FlowHeights :
         LET g == generate_content_ops(flow, Rect(RectY, w, h), truetype_fonts)
         IN /\ Called(fit_textflow(Pack(0), g))
            /\ flow' = [flow EXCEPT !.cursor = g.cursor]
            /\ flow_hist' = Fitted(flow_hist, Rect(RectY, w, h), g)
    /\ UNCHANGED <<log, tcursor, table_hist, frame, bw, fmt>>

\* TextFlow::new() with the word_break the caller sets, in a document that
\* has loaded one face and has a page open.
InitFlow ==
    /\ InitWriterVars /\ InitCaller
    /\ info = <<>>
    /\ page_obj_ids = <<>>
    /\ current_page = NewPage(LetterWidth, LetterHeight)
    /\ next_obj_num = FIRST_PAGE_OBJ_NUM
    /\ font_obj_ids = EmptyMap
    /\ truetype_fonts = <<from_bytes("ttf", 15).font>>
    /\ truetype_font_obj_ids = EmptyMap
    /\ next_font_num = 16
    /\ compress = FALSE
    /\ images = <<>>
    /\ image_obj_ids = EmptyMap
    /\ written_images = {}
    /\ next_image_num = 1
    /\ overlay_streams = EmptyMap
    /\ flow \in {[NoFlow EXCEPT !.word_break = wb] : wb \in WordBreaks}
    /\ flow_hist = NoHist
    /\ tcursor = NoCursor
    /\ InitUnused

NextFlow == F_add_text \/ F_fit_textflow

SpecFlow == InitFlow /\ [][NextFlow]_vars

(***************************************************************************)
(* SpecPaginate: a caller has built its flow and lays it out in one rect,  *)
(* call after call, until fit_textflow returns Stop, as the loop of        *)
(* examples/rust/generate_textflow.rs does.  The caller goes on calling:   *)
(* the specification is fair to the call.                                  *)
(***************************************************************************)
\* The flows of one span and of two.
OneSpanFlows ==
    {add_text([NoFlow EXCEPT !.word_break = wb], text, style) :
        wb \in WordBreaks, text \in FlowTexts, style \in FlowStyles}
PaginateFlows ==
    OneSpanFlows \cup
    {add_text(fl, text, style) :
        fl \in {f \in OneSpanFlows : SpanChars(f.spans) < MaxTextLen},
        text \in {t \in FlowTexts : Len(t) < MaxTextLen},
        style \in FlowStyles}
PaginateFrames == {Rect(RectY, w, h) : w \in FlowWidths, h \in FlowHeights}

P_fit_textflow ==
    /\ LET g == generate_content_ops(flow, frame, truetype_fonts)
       IN /\ Called(fit_textflow(Pack(0), g))
          /\ flow' = [flow EXCEPT !.cursor = g.cursor]
          /\ flow_hist' = Fitted(flow_hist, frame, g)
    /\ UNCHANGED <<log, tcursor, table_hist, frame, bw, fmt>>

InitPaginate ==
    /\ InitWriterVars /\ InitCaller
    /\ info = <<>>
    /\ page_obj_ids = <<>>
    /\ current_page = NewPage(LetterWidth, LetterHeight)
    /\ next_obj_num = FIRST_PAGE_OBJ_NUM
    /\ font_obj_ids = EmptyMap
    /\ truetype_fonts = <<from_bytes("ttf", 15).font>>
    /\ truetype_font_obj_ids = EmptyMap
    /\ next_font_num = 16
    /\ compress = FALSE
    /\ images = <<>>
    /\ image_obj_ids = EmptyMap
    /\ written_images = {}
    /\ next_image_num = 1
    /\ overlay_streams = EmptyMap
    /\ flow \in {fl \in PaginateFlows : SpanChars(fl.spans) <= MaxTextLen}
    /\ frame \in PaginateFrames
    /\ flow_hist = NoHist
    /\ tcursor = NoCursor
    /\ table_hist = NoTableHist
    /\ bw = NoBreak /\ fmt = NoFormat

NextPaginate == P_fit_textflow

SpecPaginate == InitPaginate /\ [][NextPaginate]_vars /\ WF_vars(P_fit_textflow)

(***************************************************************************)
(* SpecLoad: a caller sets a document up: it loads fonts and images from   *)
(* bytes that are a font or an image, or are not.  Here `log` is the       *)
(* caller's record of its load calls: what it called, whether the call     *)
(* returned Ok, and the handle it was given.                               *)
(***************************************************************************)
LoadFontBytes == {"ttf", "bad"}

Loaded(op, r) ==
    /\ Called(r.m)
    /\ log' = Append(log, [op |-> op, ok |-> r.ok, id |-> r.id])

L_load_font_bytes ==
    /\ Len(log) < MaxLoadCalls
    /\ \E data \in LoadFontBytes : Loaded("load_font_bytes", load_font_bytes(Pack(0), data))
    /\ UNCHANGED <<flow, flow_hist, tcursor, table_hist, frame, bw, fmt>>

L_load_image_bytes ==
    /\ Len(log) < MaxLoadCalls
    /\ \E data \in ImageBytes :
         Loaded("load_image_bytes", load_image_bytes(Pack(0), data))
    /\ UNCHANGED <<flow, flow_hist, tcursor, table_hist, frame, bw, fmt>>

\* PdfDocument::new has written the header.
InitLoad ==
    /\ LET m == write_header([out |-> <<>>, offset |-> 0, calls |-> 0, fail |-> 0,
                              err |-> FALSE])
       IN out = m.out /\ offset = m.offset
    /\ xref_entries = <<>>
    /\ InitDocVars /\ InitCaller
    /\ flow = NoFlow /\ flow_hist = NoHist /\ tcursor = NoCursor
    /\ InitUnused

NextLoad == L_load_font_bytes \/ L_load_image_bytes

SpecLoad == InitLoad /\ [][NextLoad]_vars

(***************************************************************************)
(* Editing a completed page: open_page, and the end of an edited page, as  *)
(* the specification of the assembler describes them (their code is not    *)
(* among the sources), over a sink that accepts every write.               *)
(***************************************************************************)
\* The page dictionary in force for a page id: the last one written under it.
PageDictOf(m, page_id) ==
    LET at == {i \in ObjectsAt(m.out) : <<m.out[i].num, m.out[i].gen>> = page_id}
        last == CHOOSE i \in at : \A j \in at : j <= i
    IN m.out[last + 1].obj

\* The PageBuilder of open_page: that of begin_page with the dimensions of
\* the existing page, and the index of the page it adds to.
EditPage(n, dict) == NewPage(dict.media_box[3], dict.media_box[4]) @@ [edit |-> n]

IsEdit(page) == page.open /\ "edit" \in DOMAIN page

\* The Resources merged: the entries the page had, then the new ones.
Merged(old, new) == old \o SelectSeq(new, LAMBDA x : \A i \in DOMAIN old : old[i] # x)

\* The page dictionary that supersedes `old`: /Contents is the array of the
\* original stream and the overlays, the Resources are merged.
EditPageDict(m, page, old, overlays) ==
    LET new == PageDict(m, page, old.contents)
    IN [new EXCEPT !.fonts = Merged(old.fonts, new.fonts),
                   !.xobjects = Merged(old.xobjects, new.xobjects),
                   !.has_xobject = old.has_xobject \/ new.has_xobject]
       @@ [contents_array |-> <<old.contents>> \o overlays]

\* The end of an edited page, after the content stream: the stream joins
\* the overlays of the page, and the page dictionary is written again under
\* the id of the page.
WriteEditPageDict(m, page, content_id) ==
    IF m.err THEN m
    ELSE LET page_id == m.page_obj_ids[page.edit]
             overlays == (IF page.edit \in DOMAIN m.overlay_streams
                          THEN m.overlay_streams[page.edit] ELSE <<>>)
                         \o <<content_id>>
         IN write_object([m EXCEPT !.overlay_streams = MapPut(@, page.edit, overlays)],
                         page_id,
                         EditPageDict(m, page, PageDictOf(m, page_id), overlays))

\* The end of an edited page, after the resources: one id is taken and the
\* additional content stream is written.
WriteEditContent(m, page) ==
    IF m.err THEN m
    ELSE WriteEditPageDict(
            write_object([m EXCEPT !.next_obj_num = @ + 1], <<m.next_obj_num, 0>>,
                         make_stream(m, "Content", OpsLen(page.content_ops))
                             @@ [ops |-> page.content_ops]),
            page, <<m.next_obj_num, 0>>)

\* end_page of a page that open_page opened.
end_edit_page(m) ==
    WriteEditContent(
        WriteImages(
            EnsureTrueType(
                EnsureFonts([m EXCEPT !.current_page = NoPage],
                            FontsInOrder(m.current_page.used_fonts)),
                SortedSeq(m.current_page.used_truetype_fonts)),
            SortedSeq(m.current_page.used_images)),
        m.current_page)

\* The close of whatever page is open.
close_page(m) ==
    IF ~m.current_page.open THEN m
    ELSE IF IsEdit(m.current_page) THEN end_edit_page(m) ELSE end_page(m)

\* open_page(n) that closes the open page before it looks at n.
open_page_closing_first(m, n) ==
    IF n < 1 \/ n > Len(close_page(m).page_obj_ids)
    THEN [m |-> close_page(m), ok |-> FALSE]
    ELSE [m |-> [close_page(m) EXCEPT !.current_page =
                    EditPage(n, PageDictOf(close_page(m), close_page(m).page_obj_ids[n]))],
          ok |-> TRUE]

\* open_page(n): n is a 1-based index into the completed pages; an open
\* page is closed; the PageBuilder has the dimensions of page n.
open_page(m, n) ==
    IF n < 1 \/ n > Len(m.page_obj_ids)
    THEN [m |-> m, ok |-> FALSE]
    ELSE [m |-> [close_page(m) EXCEPT !.current_page =
                    EditPage(n, PageDictOf(close_page(m), m.page_obj_ids[n]))],
          ok |-> TRUE]

(***************************************************************************)
(* SpecEdit: a caller writes pages of two sizes and adds to pages it has   *)
(* completed, as edit_page_test.rs does.  Here `log` is the caller's       *)
(* record of its calls: the pages it began with what it placed on each and *)
(* on each of its overlays, the page it is adding to (0: none), the       *)
(* begin_page and open_page calls it has made and the open_page calls that *)
(* returned Err.  The caller places one text on every page and overlay.    *)
(***************************************************************************)
EditSizes == {<<LetterWidth, LetterHeight>>, <<419000, 595000>>}
EditTexts == {<<"a">>, <<"b">>}
NewEditLog == [pages |-> <<>>, editing |-> 0, calls |-> 0, refused |-> 0]

\* The caller has placed its text on the page it has open, if any.
CanGoOn == status = "open" /\ (current_page.open => current_page.content_ops # <<>>)

E_begin_page ==
    /\ CanGoOn
    /\ log.calls < MaxEditCalls
    /\ \E size \in EditSizes :
         /\ Called(begin_page(IF IsEdit(current_page) THEN end_edit_page(Pack(0))
                                                      ELSE Pack(0),
                              size[1], size[2]))
         /\ log' = [log EXCEPT !.editing = 0, !.calls = @ + 1,
                               !.pages = Append(@, [width |-> size[1], height |-> size[2],
                                                    content |-> <<>>, overlays |-> <<>>])]
    /\ UNCHANGED <<flow, flow_hist, tcursor, table_hist, frame, bw, fmt>>

\* One text on the page, or on the overlay, the caller has open.
E_place_text ==
    /\ PageOpen
    /\ current_page.content_ops = <<>>
    /\ \E text \in EditTexts :
         LET m == place_text(Pack(0), text)
         IN /\ Called(m)
            /\ log' = IF log.editing = 0
                      THEN [log EXCEPT !.pages[Len(log.pages)].content =
                                           m.current_page.content_ops]
                      ELSE [log EXCEPT !.pages[log.editing].overlays =
                                           [@ EXCEPT ![Len(@)] = m.current_page.content_ops]]
    /\ UNCHANGED <<flow, flow_hist, tcursor, table_hist, frame, bw, fmt>>

E_open_page ==
    /\ CanGoOn
    /\ log.calls < MaxEditCalls
    /\ \E n \in 0 .. MaxEditCalls :
         LET r == open_page(Pack(0), n)
         IN /\ Called(r.m)
            /\ log' = IF r.ok
                      THEN [log EXCEPT !.editing = n, !.calls = @ + 1,
                                       !.pages[n].overlays = Append(@, <<>>)]
                      ELSE [log EXCEPT !.refused = @ + 1, !.calls = @ + 1]
    /\ UNCHANGED <<flow, flow_hist, tcursor, table_hist, frame, bw, fmt>>

E_end_page ==
    /\ PageOpen /\ CanGoOn
    /\ Called(close_page(Pack(0)))
    /\ log' = [log EXCEPT !.editing = 0]
    /\ UNCHANGED <<flow, flow_hist, tcursor, table_hist, frame, bw, fmt>>

E_end_document ==
    /\ CanGoOn
    /\ Unpack(end_document(IF IsEdit(current_page) THEN end_edit_page(Pack(0))
                                                   ELSE Pack(0)))
    /\ status' = "done"
    /\ log' = [log EXCEPT !.editing = 0]
    /\ UNCHANGED <<sink_failures, flow, flow_hist, tcursor, table_hist, frame, bw, fmt>>

\* PdfDocument::new has written the header.
InitEdit ==
    /\ LET m == write_header([out |-> <<>>, offset |-> 0, calls |-> 0, fail |-> 0,
                              err |-> FALSE])
       IN out = m.out /\ offset = m.offset
    /\ xref_entries = <<>>
    /\ InitDocVars
    /\ status = "open" /\ sink_failures = 0 /\ log = NewEditLog
    /\ flow = NoFlow /\ flow_hist = NoHist /\ tcursor = NoCursor
    /\ InitUnused

NextEdit == E_begin_page \/ E_place_text \/ E_open_page \/ E_end_page \/ E_end_document

SpecEdit == InitEdit /\ [][NextEdit]_vars

(***************************************************************************)
(* SpecBreak: break_word called on its own, as the tests of textflow.rs    *)
(* call it, with a word, a width, a style and a mode; one TrueType face    *)
(* has been loaded.  A word is the sequence of its characters, which is    *)
(* how break_word walks it (`remaining.chars()`, cut at sums of            *)
(* len_utf8).                                                              *)
(***************************************************************************)
WordChars == {"a", "b", "-"}
BreakWords == UNION {[1 .. n -> WordChars] : n \in 0 .. MaxWordLen}
BreakWidths == {-1000, 0, 3000, 6000, 9000, 12000}

B_break_word ==
    /\ ~bw.called
    /\ bw' = [bw EXCEPT !.called = TRUE,
                        !.pieces = break_word(bw.word, bw.avail_width, bw.style,
                                              bw.mode, truetype_fonts)]
    /\ UNCHANGED <<writerVars, docVars, status, sink_failures, log, flow, flow_hist,
                   tcursor, table_hist, frame, fmt>>

InitBreak ==
    /\ InitWriterVars /\ InitCaller
    /\ info = <<>>
    /\ page_obj_ids = <<>>
    /\ current_page = NoPage
    /\ next_obj_num = FIRST_PAGE_OBJ_NUM
    /\ font_obj_ids = EmptyMap
    /\ truetype_fonts = <<from_bytes("ttf", 15).font>>
    /\ truetype_font_obj_ids = EmptyMap
    /\ next_font_num = 16
    /\ compress = FALSE
    /\ images = <<>>
    /\ image_obj_ids = EmptyMap
    /\ written_images = {}
    /\ next_image_num = 1
    /\ overlay_streams = EmptyMap
    /\ flow = NoFlow /\ flow_hist = NoHist /\ tcursor = NoCursor
    /\ table_hist = NoTableHist /\ frame = NoFrame /\ fmt = NoFormat
    /\ \E word \in BreakWords, w \in BreakWidths, style \in FlowStyles, mode \in WordBreaks :
         bw = [word |-> word, avail_width |-> w, style |-> style, mode |-> mode,
               called |-> FALSE, pieces |-> <<>>]

NextBreak == B_break_word

SpecBreak == InitBreak /\ [][NextBreak]_vars

(***************************************************************************)
(* SpecHeaderLoop: the streaming loop of tables_test.rs                    *)
(* (header_repeated_on_each_page_via_is_first_row): on every page the      *)
(* header if the cursor is at its first row, then row after row; a row     *)
(* answered BoxFull is tried again on the next page.  table_hist is the    *)
(* loop's record: where it is, the header, the data rows, the row it is    *)
(* at (`next`), the pages begun, the data rows taken off the list on this  *)
(* page, the last answer, and on how many pages running the row at `next`  *)
(* has been answered BoxFull.                                              *)
(***************************************************************************)
LoopRowHeights == {10000, 15000}
LoopHeaderHeights == {10000, 25000}
LoopRects == {Rect(RectY, 200000, 20000), Rect(RectY, 200000, 30000)}
LoopRow(height) == Row(<<Cell(DocText, Builtin("Helvetica"))>>, height)
LoopRowLists ==
    UNION {[1 .. n -> {LoopRow(h) : h \in LoopRowHeights}] : n \in 1 .. MaxLoopRows}

NewLoop(header, rows) ==
    [pc |-> "begin_page", header |-> header, rows |-> rows, next |-> 1, pages |-> 0,
     on_page |-> 0, result |-> "none", full_pages |-> 0]

\* while iter.peek().is_some() { doc.begin_page(612.0, 792.0); pages += 1;
H_begin_page ==
    /\ table_hist.pc = "begin_page"
    /\ table_hist.pages < MaxLoopPages
    /\ Called(begin_page(Pack(0), LetterWidth, LetterHeight))
    /\ table_hist' = [table_hist EXCEPT !.pc = "header", !.pages = @ + 1, !.on_page = 0]
    /\ UNCHANGED <<log, flow, flow_hist, tcursor, frame, bw, fmt>>

\* if cursor.is_first_row() { doc.fit_row(&table, &header, &mut cursor).unwrap(); }
H_fit_header ==
    /\ table_hist.pc = "header"
    /\ IF is_first_row(tcursor)
       THEN LET g == generate_row_ops(DocTable, table_hist.header, tcursor, truetype_fonts)
            IN Called(fit_row(Pack(0), g)) /\ tcursor' = g.cursor
       ELSE UNCHANGED <<writerVars, docVars, status, sink_failures, tcursor>>
    /\ table_hist' = [table_hist EXCEPT !.pc = "rows"]
    /\ UNCHANGED <<log, flow, flow_hist, frame, bw, fmt>>

\* match doc.fit_row(&table, row, &mut cursor).unwrap() { Stop => iter.next(),
\* BoxFull => break, BoxEmpty => { iter.next(); break; } }; the inner while
\* ends as well when no row is left.
H_fit_row ==
    /\ table_hist.pc = "rows"
    /\ LET g == generate_row_ops(DocTable, table_hist.rows[table_hist.next], tcursor,
                                 truetype_fonts)
           taken == g.result # "BoxFull"
           left == table_hist.next + (IF taken THEN 1 ELSE 0) <= Len(table_hist.rows)
       IN /\ Called(fit_row(Pack(0), g))
          /\ tcursor' = g.cursor
          /\ table_hist' =
                [table_hist EXCEPT
                    !.pc = IF g.result = "Stop" /\ left THEN "rows" ELSE "end_page",
                    !.next = @ + (IF taken THEN 1 ELSE 0),
                    !.on_page = @ + (IF taken THEN 1 ELSE 0),
                    !.result = g.result,
                    !.full_pages = IF taken THEN 0 ELSE @ + 1]
    /\ UNCHANGED <<log, flow, flow_hist, frame, bw, fmt>>

\* doc.end_page().unwrap(); if iter.peek().is_some() { cursor.reset(&small_rect); } }
H_end_page ==
    /\ table_hist.pc = "end_page"
    /\ LET m == end_page(Pack(0))
       IN Unpack(m) /\ Returned(m, FALSE)
    /\ IF table_hist.next <= Len(table_hist.rows)
       THEN /\ tcursor' = reset(tcursor, tcursor.rect)
            /\ table_hist' = [table_hist EXCEPT !.pc = "begin_page"]
       ELSE /\ tcursor' = tcursor
            /\ table_hist' = [table_hist EXCEPT !.pc = "end_document"]
    /\ UNCHANGED <<log, flow, flow_hist, frame, bw, fmt>>

\* let bytes = doc.end_document().unwrap();
H_end_document ==
    /\ table_hist.pc = "end_document"
    /\ LET m == end_document(Pack(0))
       IN Unpack(m) /\ Returned(m, TRUE)
    /\ table_hist' = [table_hist EXCEPT !.pc = "done"]
    /\ UNCHANGED <<log, flow, flow_hist, tcursor, frame, bw, fmt>>

\* make_doc(), TableCursor::new(&small_rect), the header and the data.
InitHeaderLoop ==
    /\ LET m == write_header([out |-> <<>>, offset |-> 0, calls |-> 0, fail |-> 0,
                              err |-> FALSE])
       IN out = m.out /\ offset = m.offset
    /\ xref_entries = <<>>
    /\ InitDocVars /\ InitCaller
    /\ \E rect \in LoopRects : tcursor = TableCursor(rect)
    /\ \E h \in LoopHeaderHeights, rows \in LoopRowLists :
          table_hist = NewLoop(LoopRow(h), rows)
    /\ flow = NoFlow /\ flow_hist = NoHist /\ frame = NoFrame /\ bw = NoBreak
    /\ fmt = NoFormat

NextHeaderLoop ==
    H_begin_page \/ H_fit_header \/ H_fit_row \/ H_end_page \/ H_end_document

SpecHeaderLoop == InitHeaderLoop /\ [][NextHeaderLoop]_vars

(***************************************************************************)
(* SpecGlyphs: a caller has loaded two TrueType faces and places texts in  *)
(* them with place_text_styled, on one page after another, as              *)
(* truetype_test.rs does; the sink accepts every write.                    *)
(***************************************************************************)
GlyphTexts == {<<"a">>, <<"d">>, <<"a", "b">>, <<"c">>}

\* The texts the caller shows in a face: any in the first, two in the second.
GlyphTextsIn(id) == IF id = 0 THEN GlyphTexts ELSE {<<"a">>, <<"c">>}

G_begin_page ==
    /\ status = "open"
    /\ Len(log) < MaxGlyphPages
    /\ Called(begin_page(Pack(0), LetterWidth, LetterHeight))
    /\ log' = Append(log, [content |-> <<>>, n |-> 0])
    /\ UNCHANGED <<flow, flow_hist, tcursor, table_hist, frame, bw, fmt>>

G_place_text_styled ==
    /\ PageOpen
    /\ Calls(log) < MaxGlyphOps
    /\ \E id \in 0 .. (Len(truetype_fonts) - 1) :
         \E text \in GlyphTextsIn(id) :
            Placed(place_text_styled_truetype(Pack(0), text, id))

G_end_page ==
    /\ PageOpen
    /\ LET m == end_page(Pack(0))
       IN Unpack(m) /\ Returned(m, FALSE)
    /\ UNCHANGED <<log, flow, flow_hist, tcursor, table_hist, frame, bw, fmt>>

G_end_document ==
    /\ status = "open"
    /\ LET m == end_document(Pack(0))
       IN Unpack(m) /\ Returned(m, TRUE)
    /\ UNCHANGED <<log, flow, flow_hist, tcursor, table_hist, frame, bw, fmt>>

InitGlyphs ==
    /\ LET m == write_header([out |-> <<>>, offset |-> 0, calls |-> 0, fail |-> 0,
                              err |-> FALSE])
       IN out = m.out /\ offset = m.offset
    /\ xref_entries = <<>>
    /\ info = <<>>
    /\ page_obj_ids = <<>>
    /\ current_page = NoPage
    /\ next_obj_num = FIRST_PAGE_OBJ_NUM
    /\ font_obj_ids = EmptyMap
    /\ truetype_fonts = <<from_bytes("ttf", 15).font, from_bytes("ttf", 16).font>>
    /\ truetype_font_obj_ids = EmptyMap
    /\ next_font_num = 17
    /\ compress = FALSE
    /\ images = <<>>
    /\ image_obj_ids = EmptyMap
    /\ written_images = {}
    /\ next_image_num = 1
    /\ overlay_streams = EmptyMap
    /\ InitCaller
    /\ flow = NoFlow /\ flow_hist = NoHist /\ tcursor = NoCursor
    /\ InitUnused

NextGlyphs == G_begin_page \/ G_place_text_styled \/ G_end_page \/ G_end_document

SpecGlyphs == InitGlyphs /\ [][NextGlyphs]_vars

(***************************************************************************)
(* SpecFormat: the two formatting functions of writer.rs, each called on   *)
(* its own.  Text is a sequence of characters.  A byte offset is the       *)
(* sequence of its decimal digits, so that an offset of more than 2^31 can *)
(* be told from a small one; a finite f64 is a sign, the digits of its     *)
(* integer part and its fraction in units of 10^-7.                        *)
(***************************************************************************)
DigitChars == <<"0", "1", "2", "3", "4", "5", "6", "7", "8", "9">>
CharOf(d) == DigitChars[d + 1]
Repeat(c, n) == [i \in 1 .. n |-> c]

\* format!("{:010}", off): at least ten digits, zeros in front.
Pad10(digits) ==
    IF Len(digits) >= 10 THEN digits ELSE Repeat("0", 10 - Len(digits)) \o digits

\* write_xref_and_trailer: format!("{:010} {:05} n\r\n", off, 0)
xref_entry(off) ==
    Pad10(off) \o <<" ", "0", "0", "0", "0", "0", " ", "n", "CR", "LF">>

\* The digits of an integer plus one.
RECURSIVE Increment(_)
Increment(digits) ==
    IF digits = <<>> THEN <<"1">>
    ELSE IF digits[Len(digits)] = "9"
    THEN Increment(SubSeq(digits, 1, Len(digits) - 1)) \o <<"0">>
    ELSE SubSeq(digits, 1, Len(digits) - 1)
         \o <<CharOf(1 + CHOOSE d \in 0 .. 8 : CharOf(d) = digits[Len(digits)])>>

Sign(f) == IF f.neg THEN <<"-">> ELSE <<>>

\* format!("{:.1}", f) of an integer-valued f.
Fixed1(f) == Sign(f) \o f.int \o <<".", "0">>

\* format!("{:.6}", f): f rounded to six decimals; the round may carry into
\* the integer part.  (No input has a seventh decimal of 5.)
Fixed6(f) ==
    LET rounded == (f.frac + 5) \div 10
        int == IF rounded = 1000000 THEN Increment(f.int) ELSE f.int
        frac6 == IF rounded = 1000000 THEN 0 ELSE rounded
    IN Sign(f) \o int \o <<".">>
       \o <<CharOf(frac6 \div 100000), CharOf((frac6 \div 10000) % 10),
            CharOf((frac6 \div 1000) % 10), CharOf((frac6 \div 100) % 10),
            CharOf((frac6 \div 10) % 10), CharOf(frac6 % 10)>>

\* str::trim_end_matches(c)
RECURSIVE trim_end_matches(_, _)
trim_end_matches(text, c) ==
    IF text # <<>> /\ text[Len(text)] = c
    THEN trim_end_matches(SubSeq(text, 1, Len(text) - 1), c)
    ELSE text

\* format_real: `f == f.floor() && f.abs() < 1e15` is an integer of at most
\* 15 digits.
format_real(f) ==
    IF f.frac = 0 /\ Len(f.int) <= 15
    THEN Fixed1(f)
    ELSE trim_end_matches(trim_end_matches(Fixed6(f), "0"), ".")

\* Offsets of 1 to MaxOffsetDigits digits: 1 or 9, then zeros or nines.
FormatOffsets ==
    {<<lead>> \o Repeat(rest, n - 1) :
        lead \in {"1", "9"}, rest \in {"0", "9"}, n \in 1 .. MaxOffsetDigits}

\* Finite f64 values: small and large integer parts; fractions that are 0,
\* that round to 0 or to 1 at six decimals, and others.  From 10^15 on the
\* values taken are integers, and from 10^14 on integers and halves.
FormatReals ==
    {[neg |-> neg, int |-> int, frac |-> frac] :
        neg \in BOOLEAN,
        int \in {<<"0">>, <<"9">>, <<"1", "2">>, <<"6", "1", "2">>},
        frac \in {0, 1, 4, 500, 1000000, 1234567, 5000000, 9999996, 9999999}}
    \cup {[neg |-> neg, int |-> Repeat("9", 15), frac |-> frac] :
            neg \in BOOLEAN, frac \in {0, 5000000}}
    \cup {[neg |-> neg, int |-> <<"1">> \o Repeat("0", 15), frac |-> 0] : neg \in BOOLEAN}

X_xref_entry ==
    /\ fmt.fn = "xref_entry" /\ ~fmt.called
    /\ fmt' = [fmt EXCEPT !.called = TRUE, !.text = xref_entry(fmt.arg)]
    /\ UNCHANGED <<writerVars, docVars, status, sink_failures, log, flow, flow_hist,
                   tcursor, table_hist, frame, bw>>

X_format_real ==
    /\ fmt.fn = "format_real" /\ ~fmt.called
    /\ fmt' = [fmt EXCEPT !.called = TRUE, !.text = format_real(fmt.arg)]
    /\ UNCHANGED <<writerVars, docVars, status, sink_failures, log, flow, flow_hist,
                   tcursor, table_hist, frame, bw>>

InitFormat ==
    /\ InitWriterVars /\ InitDocVars /\ InitCaller
    /\ flow = NoFlow /\ flow_hist = NoHist /\ tcursor = NoCursor
    /\ table_hist = NoTableHist /\ frame = NoFrame /\ bw = NoBreak
    /\ \/ \E off \in FormatOffsets :
            fmt = [fn |-> "xref_entry", arg |-> off, called |-> FALSE, text |-> <<>>]
       \/ \E f \in FormatReals :
            fmt = [fn |-> "format_real", arg |-> f, called |-> FALSE, text |-> <<>>]

NextFormat == X_xref_entry \/ X_format_real

SpecFormat == InitFormat /\ [][NextFormat]_vars

(***************************************************************************)
(* reader.rs: PdfReader::from_bytes on an output.  The xref table is read  *)
(* as text, in slices of 20 characters as the reader takes them; the text  *)
(* is the subsection line, the entries and the keyword "trailer".  The     *)
(* objects and the trailer are read from the chunks at the byte positions  *)
(* the table gives.  An offset read from the table is kept as its digits.  *)
(***************************************************************************)
RECURSIVE ToDigits(_)
ToDigits(n) == IF n < 10 THEN <<CharOf(n)>> ELSE ToDigits(n \div 10) \o <<CharOf(n % 10)>>

Drop(text, n) == SubSeq(text, n + 1, Len(text))

IsDigit(c) == \E d \in 0 .. 9 : CharOf(d) = c
AllDigits(text) == text # <<>> /\ \A i \in DOMAIN text : IsDigit(text[i])

\* str::parse::<u32>() of a few digits.
RECURSIVE Val(_)
Val(text) ==
    IF text = <<>> THEN 0
    ELSE 10 * Val(SubSeq(text, 1, Len(text) - 1))
         + (CHOOSE d \in 0 .. 9 : CharOf(d) = text[Len(text)])

\* The digits of a parsed usize: those of the text without zeros in front.
RECURSIVE StripZeros(_)
StripZeros(text) ==
    IF Len(text) > 1 /\ text[1] = "0" THEN StripZeros(Drop(text, 1)) ELSE text

IsWhitespace(c) == c \in {" ", "CR", "LF"}

RECURSIVE skip_ascii_whitespace(_)
skip_ascii_whitespace(data) ==
    IF data # <<>> /\ IsWhitespace(data[1])
    THEN skip_ascii_whitespace(Drop(data, 1))
    ELSE data

\* next_token: the characters up to the next whitespace (the table has no
\* '<' or '>'), after the whitespace in front of them.
RECURSIVE TokenOf(_)
TokenOf(data) ==
    IF data = <<>> \/ IsWhitespace(data[1]) THEN <<>>
    ELSE <<data[1]>> \o TokenOf(Drop(data, 1))

next_token(data) == TokenOf(skip_ascii_whitespace(data))

after_token(data) ==
    Drop(skip_ascii_whitespace(data), Len(next_token(data)))

\* skip_line: past the first LF; nothing is left when there is none.
RECURSIVE skip_line(_)
skip_line(data) ==
    IF data = <<>> THEN <<>>
    ELSE IF data[1] = "LF" THEN Drop(data, 1)
    ELSE skip_line(Drop(data, 1))

TrailerKeyword == <<"t", "r", "a", "i", "l", "e", "r", "LF">>

\* The entries of one subsection: slice i is characters 20i+1 .. 20i+20, its
\* offset the first ten, its status the eighteenth.
ReadEntries(entries, first_obj, count) ==
    LET slice(i) == SubSeq(entries, 20 * i + 1, 20 * i + 20)
        in_use == {i \in 0 .. (count - 1) : slice(i)[18] = "n"}
    IN [ok |-> \A i \in in_use : AllDigits(SubSeq(slice(i), 1, 10)),
        map |-> [n \in {first_obj + i : i \in in_use} \ {0} |->
                    StripZeros(SubSeq(slice(n - first_obj), 1, 10))]]

\* parse_xref_table after "xref": subsection after subsection until the
\* keyword "trailer"; a number read later replaces the one read before.
RECURSIVE parse_xref_table(_, _)
parse_xref_table(section, map) ==
    LET trimmed == skip_ascii_whitespace(section)
    IN IF trimmed = <<>> \/ SubSeq(trimmed, 1, 7) = SubSeq(TrailerKeyword, 1, 7)
       THEN [ok |-> TRUE, map |-> map]
       ELSE LET first_obj_str == next_token(trimmed)
                count_str == next_token(after_token(trimmed))
                entries_start == skip_line(after_token(after_token(trimmed)))
            IN IF ~AllDigits(first_obj_str) \/ ~AllDigits(count_str)
               THEN [ok |-> FALSE, map |-> map]
               ELSE IF Len(entries_start) < Val(count_str) * 20
               THEN [ok |-> FALSE, map |-> map]
               ELSE LET read == ReadEntries(entries_start, Val(first_obj_str),
                                            Val(count_str))
                        merged == [n \in DOMAIN map \cup DOMAIN read.map |->
                                     IF n \in DOMAIN read.map THEN read.map[n]
                                     ELSE map[n]]
                    IN IF ~read.ok THEN [ok |-> FALSE, map |-> map]
                       ELSE parse_xref_table(
                               Drop(entries_start, Val(count_str) * 20), merged)

\* The text of the chunks the writer made of the table.
Gen5(gen) == Repeat("0", 5 - Digits(gen)) \o ToDigits(gen)

EntryText(chunk) ==
    IF chunk.kind = "n" THEN xref_entry(ToDigits(chunk.off))
    ELSE Pad10(<<"0">>) \o <<" ">> \o Gen5(chunk.gen) \o <<" ", "f", "CR", "LF">>

RECURSIVE TableText(_, _)
TableText(o, j) ==
    IF j > Len(o) THEN <<>>
    ELSE IF o[j].t = "subsection"
    THEN ToDigits(o[j].first) \o <<" ">> \o ToDigits(o[j].size) \o <<"LF">>
         \o TableText(o, j + 1)
    ELSE IF o[j].t = "xrefentry" THEN EntryText(o[j]) \o TableText(o, j + 1)
    ELSE IF o[j].t = "trailer" THEN TrailerKeyword
    ELSE <<>>

\* The chunk that begins at a byte position, 0 if none does.
ChunkAt(o, pos) ==
    IF \E i \in DOMAIN o : PosOf(o, i) = pos
    THEN CHOOSE i \in DOMAIN o : PosOf(o, i) = pos /\ o[i].len > 0
    ELSE 0

\* find_startxref: the last "startxref" of the last 1024 bytes and the
\* number after it, which must be a position in the file.  0: not found.
find_startxref(o) ==
    LET ks == {k \in DOMAIN o : /\ o[k].t = "startxref"
                                /\ PosOf(o, k) >= SumLen(o, Len(o)) - 1024
                                /\ k < Len(o) /\ o[k + 1].t = "startxrefval"}
        k == CHOOSE i \in ks : \A j \in ks : j <= i
    IN IF ks = {} THEN 0
       ELSE IF o[k + 1].value >= SumLen(o, Len(o)) THEN 0
       ELSE o[k + 1].value

\* parse_trailer_root: the dictionary after the first "trailer" from the
\* xref keyword on, and the object number of its /Root.  0: none.
parse_trailer_root(o, x) ==
    LET ts == {k \in x .. Len(o) : /\ o[k].t = "trailer"
                                   /\ k < Len(o) /\ o[k + 1].t = "trailerdict"}
    IN IF ts = {} THEN 0
       ELSE o[1 + CHOOSE k \in ts : \A j \in ts : k <= j].root[1]

\* resolve_dict: the dictionary of the object the table places obj_num at.
\* A record without a kind: the object cannot be resolved.
Unresolvable == [err |-> "UnresolvableObject"]

resolve_dict(o, xref, obj_num) ==
    IF obj_num \notin DOMAIN xref THEN Unresolvable
    ELSE LET at == {i \in DOMAIN o : ToDigits(PosOf(o, i)) = xref[obj_num]
                                     /\ o[i].t = "objhdr"
                                     /\ i < Len(o) /\ o[i + 1].t = "body"
                                     /\ o[i + 1].obj.kind # "Name"}
         IN IF at = {} THEN Unresolvable
            ELSE o[1 + CHOOSE i \in at : TRUE].obj

\* resolve_page_count: /Pages of the catalog, /Count of the object it names.
resolve_page_count(o, xref, catalog_obj_num) ==
    LET catalog_dict == resolve_dict(o, xref, catalog_obj_num)
        pages_dict == resolve_dict(o, xref, catalog_dict.pages[1])
    IN IF "kind" \notin DOMAIN catalog_dict THEN [ok |-> FALSE, err |-> catalog_dict.err]
       ELSE IF "pages" \notin DOMAIN catalog_dict
       THEN [ok |-> FALSE, err |-> "MalformedPageTree"]
       ELSE IF "kind" \notin DOMAIN pages_dict THEN [ok |-> FALSE, err |-> pages_dict.err]
       ELSE IF "count" \notin DOMAIN pages_dict
       THEN [ok |-> FALSE, err |-> "MalformedPageTree"]
       ELSE [ok |-> TRUE, count |-> pages_dict.count]

\* PdfReader::from_bytes, and what page_count() and pdf_version() return
\* of the reader made.
PdfReader_from_bytes(o) ==
    LET xref_offset == find_startxref(o)
        x == ChunkAt(o, xref_offset)
        table == parse_xref_table(TableText(o, x + 1), <<>>)
        root == parse_trailer_root(o, x)
        pages == resolve_page_count(o, table.map, root)
    IN IF o = <<>> \/ o[1].t # "hdr" THEN [ok |-> FALSE, err |-> "NotAPdf"]
       ELSE IF xref_offset = 0 THEN [ok |-> FALSE, err |-> "StartxrefNotFound"]
       ELSE IF x = 0 \/ o[x].t # "xref" THEN [ok |-> FALSE, err |-> "XrefStreamNotSupported"]
       ELSE IF ~table.ok THEN [ok |-> FALSE, err |-> "MalformedXref"]
       ELSE IF root = 0 THEN [ok |-> FALSE, err |-> "MalformedTrailer"]
       ELSE IF ~pages.ok THEN pages
       ELSE [ok |-> TRUE, page_count |-> pages.count, pdf_version |-> "1.7"]

(***************************************************************************)
(* SpecTable: a caller places rows of a table on the open page with one    *)
(* TableCursor, and resets the cursor for a new rect, as tables_test.rs    *)
(* does.  One TrueType face has been loaded.                               *)
(***************************************************************************)
TableRects == {Rect(RectY, 200000, 20000), Rect(RectY - 100000, 200000, 30000)}
TableRowHeights == {0, 10000, 15000, 25000}
TableFonts == {Builtin("Helvetica"), TrueType(0)}
TableRows ==
    {Row(<<Cell(DocText, font)>>, height) : font \in TableFonts, height \in TableRowHeights}

T_fit_row ==
    /\ table_hist.calls < MaxRowCalls
    /\ \E row \in TableRows :
         LET g == generate_row_ops(DocTable, row, tcursor, truetype_fonts)
         IN /\ Called(fit_row(Pack(0), g))
            /\ tcursor' = g.cursor
            /\ table_hist' = RowFitted(table_hist, row, g)
    /\ UNCHANGED <<log, flow, flow_hist, frame, bw, fmt>>

T_reset ==
    /\ table_hist.calls < MaxRowCalls
    /\ \E rect \in TableRects : tcursor' = reset(tcursor, rect)
    /\ table_hist' = CursorReset(table_hist)
    /\ UNCHANGED <<writerVars, docVars, status, sink_failures, log, flow, flow_hist,
                   frame, bw, fmt>>

\* TableCursor::new(&rect) in a document that has loaded one face and has a
\* page open.
InitTable ==
    /\ InitWriterVars /\ InitCaller
    /\ info = <<>>
    /\ page_obj_ids = <<>>
    /\ current_page = NewPage(LetterWidth, LetterHeight)
    /\ next_obj_num = FIRST_PAGE_OBJ_NUM
    /\ font_obj_ids = EmptyMap
    /\ truetype_fonts = <<from_bytes("ttf", 15).font>>
    /\ truetype_font_obj_ids = EmptyMap
    /\ next_font_num = 16
    /\ compress = FALSE
    /\ images = <<>>
    /\ image_obj_ids = EmptyMap
    /\ written_images = {}
    /\ next_image_num = 1
    /\ overlay_streams = EmptyMap
    /\ \E rect \in TableRects : tcursor = TableCursor(rect)
    /\ table_hist = NewTableHist
    /\ flow = NoFlow /\ flow_hist = NoHist /\ frame = NoFrame /\ bw = NoBreak
    /\ fmt = NoFormat

NextTable == T_fit_row \/ T_reset

SpecTable == InitTable /\ [][NextTable]_vars

(***************************************************************************)
(* Reading a document back from the output.                                *)
(***************************************************************************)
IdAt(i) == <<out[i].num, out[i].gen>>
BodyAt(i) == out[i + 1].obj

\* The complete objects of a kind, as places in the output.
ObjsOfKind(kind) == {i \in ObjectsAt(out) : BodyAt(i).kind = kind}

\* The completed pages, in file order, as places of their page objects.
PageObjs == SortedSeq(ObjsOfKind("Page"))

\* The content stream object a page object names.
ContentOf(i) ==
    CHOOSE c \in ObjsOfKind("Content") \cup {0} :
        \/ c # 0 /\ IdAt(c) = BodyAt(i).contents
        \/ c = 0 /\ \A d \in ObjsOfKind("Content") : IdAt(d) # BodyAt(i).contents

\* The resource names a sequence of content operators refers to with `o`.
NamesUsed(ops, o) == {ops[k].name : k \in {j \in DOMAIN ops : ops[j].op = o}}

\* The pages of the caller's log that are closed: all but an open last one.
ClosedPages == IF current_page.open THEN SubSeq(log, 1, Len(log) - 1) ELSE log

\* C1: the /Count of the Pages tree is the number of completed pages, /Kids
\* lists their object ids in the order they were completed, and page_count()
\* is that number at every moment.
C1_PageCountMatchesCompletedPages ==
    /\ page_count = Len(PageObjs)
    /\ page_obj_ids = [k \in DOMAIN PageObjs |-> IdAt(PageObjs[k])]
    /\ \A i \in ObjsOfKind("Pages") :
          /\ BodyAt(i).count = Len(PageObjs)
          /\ BodyAt(i).kids = [k \in DOMAIN PageObjs |-> IdAt(PageObjs[k])]

\* Two pages, the first closed by begin_page, counted in a finished file.
C1_Witness ==
    /\ status = "done"
    /\ Len(PageObjs) = 2
    /\ \E i \in ObjsOfKind("Pages") : BodyAt(i).count = 2
    /\ page_count = 2

\* The ids an object's body refers to.
RefsOf(obj) ==
    CASE obj.kind = "Page" ->
           {obj.contents, obj.parent} \cup {obj.fonts[k][2] : k \in DOMAIN obj.fonts}
               \cup {obj.xobjects[k][2] : k \in DOMAIN obj.xobjects}
      [] obj.kind = "Pages" -> Range(obj.kids)
      [] obj.kind = "Catalog" -> {obj.pages}
      [] obj.kind = "Image" -> {obj.smask} \ {NoId}
      [] obj.kind = "FontDescriptor" -> {obj.font_file}
      [] obj.kind = "CIDFontType2" -> {obj.descriptor}
      [] obj.kind = "Type0" -> {obj.descendant, obj.tounicode}
      [] OTHER -> {}

WrittenIds == {IdAt(i) : i \in ObjectsAt(out)}

AllRefs ==
    UNION {RefsOf(BodyAt(i)) : i \in ObjectsAt(out)}
        \cup {out[k].root : k \in {j \in DOMAIN out : out[j].t = "trailerdict"}}
        \cup {out[k].info : k \in {j \in DOMAIN out : out[j].t = "trailerinfo"}}

\* C3: when end_document has finished on a sink that never failed, every
\* indirect reference in a written object or in the trailer names an object
\* that has been written.
C3_AllReferencesResolve ==
    (status = "done" /\ sink_failures = 0) => AllRefs \subseteq WrittenIds

\* A finished file with a masked image, a TrueType face and an Info entry.
C3_Witness ==
    /\ status = "done" /\ sink_failures = 0
    /\ \E i \in ObjsOfKind("Image") : BodyAt(i).smask # NoId
    /\ ObjsOfKind("Type0") # {}
    /\ \E k \in DOMAIN out : out[k].t = "trailerinfo"

\* The completed pages (indices into PageObjs) whose content refers to the
\* resource `name` with operator `o` (Tf for a font, Do for an image).
UsersOf(name, o) ==
    {k \in DOMAIN PageObjs :
        /\ ContentOf(PageObjs[k]) # 0
        /\ name \in NamesUsed(BodyAt(ContentOf(PageObjs[k])).ops, o)}

First(S) == CHOOSE k \in S : \A j \in S : k <= j

\* The object at place x was written while page k (an index into PageObjs)
\* was being ended: after the page object before it, before its content.
WrittenAtEndOf(x, k) ==
    /\ x < ContentOf(PageObjs[k])
    /\ k > 1 => PageObjs[k - 1] < x

\* The pages the caller has closed or left to be closed that used `name`.
UsedInLog(name, o) ==
    \E k \in DOMAIN ClosedPages : name \in NamesUsed(ClosedPages[k].content, o)

ImageObjs(idx) == {i \in ObjsOfKind("Image") : BodyAt(i).image = idx}
SMaskObjs(idx) == {i \in ObjsOfKind("SMask") : BodyAt(i).image = idx}

\* C4: an image handle placed on one or more pages gets exactly one image
\* XObject and at most one SMask object in the whole document, written at the
\* end of the first page that uses it; every page that uses it lists that
\* object under the handle's Im-name; different handles get different names
\* and objects.
C4_ImageXObjectWrittenOnce ==
    /\ \A idx \in DOMAIN image_obj_ids :
          LET name == image_obj_ids[idx].pdf_name
              users == UsersOf(name, "Do")
          IN /\ Cardinality(ImageObjs(idx)) <= 1
             /\ Cardinality(SMaskObjs(idx)) <= 1
             /\ users # {} =>
                   \E x \in ImageObjs(idx) :
                       /\ WrittenAtEndOf(x, First(users))
                       /\ \A k \in users :
                             \E e \in DOMAIN BodyAt(PageObjs[k]).xobjects :
                                 BodyAt(PageObjs[k]).xobjects[e] = <<name, IdAt(x)>>
    /\ \A a, b \in DOMAIN image_obj_ids :
          a # b =>
             /\ image_obj_ids[a].pdf_name # image_obj_ids[b].pdf_name
             /\ \A x \in ImageObjs(a), y \in ImageObjs(b) : IdAt(x) # IdAt(y)

\* C4 when the sink refuses no write.
C4_WhileSinkAccepts == sink_failures = 0 => C4_ImageXObjectWrittenOnce

Type1Objs(font) == {i \in ObjsOfKind("Type1Font") : BodyAt(i).font = font}

\* C5: a built-in font gets at most one Type1 object per document, written
\* at the end of the first page that uses it: once the caller has closed a
\* page that uses the font the object is in the file, before the content of
\* the first page in the file that uses it; every page that uses the font
\* lists that object; a font used on no page is never written.
C5_BuiltinFontWrittenOnce ==
    status # "failed" =>
        \A font \in BuiltinFonts :
            LET users == UsersOf(pdf_name(font), "Tf")
            IN /\ Cardinality(Type1Objs(font)) <= 1
               /\ UsedInLog(pdf_name(font), "Tf") => Type1Objs(font) # {}
               /\ users # {} =>
                     \E x \in Type1Objs(font) :
                         /\ WrittenAtEndOf(x, First(users))
                         /\ \A k \in users :
                               \E e \in DOMAIN BodyAt(PageObjs[k]).fonts :
                                   BodyAt(PageObjs[k]).fonts[e] = <<pdf_name(font), IdAt(x)>>
               /\ Type1Objs(font) # {} => UsedInLog(pdf_name(font), "Tf")

\* C5 when the sink refuses no write.
C5_WhileSinkAccepts == sink_failures = 0 => C5_BuiltinFontWrittenOnce

TrueTypeKinds == <<"FontFile2", "FontDescriptor", "CIDFontType2", "ToUnicode", "Type0">>

FaceObjs(idx) ==
    {i \in ObjectsAt(out) : BodyAt(i).kind \in Range(TrueTypeKinds) /\ BodyAt(i).face = idx}

\* C6: no object of a TrueType face is written before end_document; in the
\* finished file a face used on a completed page has exactly five objects,
\* FontFile2, FontDescriptor, CIDFontType2, ToUnicode, Type0 in this order,
\* under the ids reserved while the first page that used it was ended; a
\* face no page used has none.
C6_TrueTypeObjectsAtEnd ==
    /\ status = "open" => \A idx \in 0 .. (Len(truetype_fonts) - 1) : FaceObjs(idx) = {}
    /\ status = "done" =>
          \A idx \in 0 .. (Len(truetype_fonts) - 1) :
              LET name == truetype_fonts[idx + 1].pdf_name
                  users == UsersOf(name, "Tf")
                  objs == SortedSeq(FaceObjs(idx))
              IN /\ users # {} =>
                       /\ idx \in DOMAIN truetype_font_obj_ids
                       /\ [k \in DOMAIN objs |-> BodyAt(objs[k]).kind] = TrueTypeKinds
                       /\ [k \in DOMAIN objs |-> IdAt(objs[k])]
                             = LET ids == truetype_font_obj_ids[idx]
                               IN <<ids.font_file, ids.descriptor, ids.cid_font,
                                    ids.tounicode, ids.type0>>
                       /\ LET ids == truetype_font_obj_ids[idx]
                              k == First(users)
                          IN /\ ids.tounicode[1] < BodyAt(PageObjs[k]).contents[1]
                             /\ k > 1 => IdAt(PageObjs[k - 1])[1] < ids.type0[1]
                 /\ ~UsedInLog(name, "Tf") => FaceObjs(idx) = {}

\* A finished file whose second page is the first to use the face.
C6_Witness ==
    /\ status = "done"
    /\ Len(truetype_fonts) = 1
    /\ UsersOf(truetype_fonts[1].pdf_name, "Tf") = {2}
    /\ Cardinality(FaceObjs(0)) = 5

\* C7: every page the caller has closed, by end_page, by the begin_page of
\* the next page or by end_document, is in the file with the content placed
\* on it, is counted, and the pages are in the order they were begun.
C7_AutoCloseCompletesOpenPage ==
    status # "failed" =>
        /\ Len(PageObjs) = Len(ClosedPages)
        /\ page_count = Len(ClosedPages)
        /\ \A k \in DOMAIN ClosedPages :
              k <= Len(PageObjs) =>
                 /\ ContentOf(PageObjs[k]) # 0
                 /\ BodyAt(ContentOf(PageObjs[k])).ops = ClosedPages[k].content

\* C7 when the sink refuses no write.
C7_WhileSinkAccepts == sink_failures = 0 => C7_AutoCloseCompletesOpenPage

\* The names a page object lists in the /Font and the /XObject dictionary
\* of its /Resources.
FontNamesOf(i) == {BodyAt(i).fonts[k][1] : k \in DOMAIN BodyAt(i).fonts}
XObjectNamesOf(i) == {BodyAt(i).xobjects[k][1] : k \in DOMAIN BodyAt(i).xobjects}

\* The /Resources of page object i list the fonts its content stream c names
\* with Tf and the images it names with Do, each once, and nothing else.
ResourcesAreThoseUsed(i, c) ==
    /\ FontNamesOf(i) = NamesUsed(BodyAt(c).ops, "Tf")
    /\ Len(BodyAt(i).fonts) = Cardinality(FontNamesOf(i))
    /\ XObjectNamesOf(i) = NamesUsed(BodyAt(c).ops, "Do")
    /\ Len(BodyAt(i).xobjects) = Cardinality(XObjectNamesOf(i))
    /\ BodyAt(i).has_xobject <=> NamesUsed(BodyAt(c).ops, "Do") # {}

\* C8 as stated: the /Resources of every page written list exactly the fonts
\* its content names with Tf and the images it names with Do, and an empty
\* page has an empty /Font dictionary, no /XObject entry and a content
\* stream of /Length 0.
C8_ResourcesMatchContent ==
    \A i \in ObjsOfKind("Page") :
        /\ ContentOf(i) # 0
        /\ ResourcesAreThoseUsed(i, ContentOf(i))
        /\ BodyAt(ContentOf(i)).ops = <<>> =>
              /\ BodyAt(i).fonts = <<>>
              /\ ~BodyAt(i).has_xobject
              /\ BodyAt(ContentOf(i)).length = 0

\* C8 with the content stream of an empty page as make_stream writes it: the
\* /Resources of every page written list exactly the fonts its content names
\* with Tf and the images it names with Do; an empty page has an empty /Font
\* dictionary and no /XObject entry, and its content stream has /Length 0
\* when compression is off and is the zlib encoding of no bytes, with
\* /Filter /FlateDecode, when compression is on.
C8_ResourcesMatchEmptyStreamAsEncoded ==
    \A i \in ObjsOfKind("Page") :
        /\ ContentOf(i) # 0
        /\ ResourcesAreThoseUsed(i, ContentOf(i))
        /\ BodyAt(ContentOf(i)).ops = <<>> =>
              /\ BodyAt(i).fonts = <<>>
              /\ ~BodyAt(i).has_xobject
              /\ BodyAt(ContentOf(i)).flate = compress
              /\ BodyAt(ContentOf(i)).length = (IF compress THEN FlateLen(0) ELSE 0)

\* With compression on, a page that took the first word of the flow and an
\* image lists one font and the image, and an empty page has been written.
C8_Witness ==
    /\ compress
    /\ flow.cursor = 1
    /\ \E i \in ObjsOfKind("Page") :
          /\ ContentOf(i) # 0
          /\ Cardinality(FontNamesOf(i)) = 1
          /\ Cardinality(XObjectNamesOf(i)) = 1
    /\ \E i \in ObjsOfKind("Page") :
          /\ ContentOf(i) # 0
          /\ BodyAt(ContentOf(i)).ops = <<>>
          /\ BodyAt(ContentOf(i)).length = FlateLen(0)

(***************************************************************************)
(* The flow read back: the word list of the last call and what was shown.  *)
(***************************************************************************)
\* The broken word list generate_content_ops laid out in the last call.
BrokenList == WordList(flow, flow_hist.width, truetype_fonts)

\* The words of a list that are not newlines.
RECURSIVE NonNewline(_)
NonNewline(words) ==
    IF words = <<>> THEN <<>>
    ELSE (IF words[1].text = <<NL>> THEN <<>> ELSE <<words[1]>>)
         \o NonNewline(Tail(words))

\* The operand emit_text writes for a text in a font.
OperandOf(text, font) ==
    IF font.kind = "Builtin" THEN text ELSE [i \in DOMAIN text |-> Hex4(Cmap(text[i]))]

\* A Tj operand shows a word: its text, with or without the collapsed space.
Shows(operand, word) ==
    \/ operand = OperandOf(word.text, word.style.font)
    \/ word.leading_space /\ operand = OperandOf(<<" ">> \o word.text, word.style.font)

\* The operands emitted so far show exactly the given words, in order.
EmittedAre(words) ==
    /\ Len(flow_hist.emitted) = Len(words)
    /\ \A k \in DOMAIN words : Shows(flow_hist.emitted[k], words[k])

\* The characters of all words, or of all spans, but for the given ones.
RECURSIVE CharsBut(_, _)
CharsBut(items, dropped) ==
    IF items = <<>> THEN <<>>
    ELSE SelectSeq(items[1].text, LAMBDA ch : ch \notin dropped)
         \o CharsBut(Tail(items), dropped)

\* Where the cursor stands after the last call, as the claim C9 has it.
CursorIndexesBrokenList ==
    /\ flow_hist.result = "BoxFull" =>
          /\ flow.cursor < Len(BrokenList)
          /\ EmittedAre(NonNewline(SubSeq(BrokenList, 1, flow.cursor)))
    /\ flow_hist.result = "Stop" => flow.cursor = Len(BrokenList)
    /\ flow_hist.widths # {} => flow.cursor <= Len(BrokenList)
    /\ flow_hist.widths = {} => flow.cursor = 0

\* Every call on the flow so far was given the same rect width, or the
\* flow does not break words.
OneRectWidth == flow.word_break = "Normal" \/ Cardinality(flow_hist.widths) <= 1

\* C9 as stated, for any rect widths: after BoxFull the cursor is the index
\* in the broken word list of the first word not placed (the words before it
\* have been emitted, none at or after it), after Stop it is the length of
\* the list, and it never decreases and never exceeds that length.
C9_CursorIndexesBrokenList ==
    /\ [](CursorIndexesBrokenList)
    /\ [][flow'.cursor >= flow.cursor]_vars

\* C9 for a flow that does not break words or is given the same rect width
\* on every call: after BoxFull the cursor is the index in the broken word
\* list of the first word not placed, after Stop it is the length of the
\* list, and it never decreases and never exceeds that length.
C9_CursorWithOneRectWidth ==
    /\ [](OneRectWidth => CursorIndexesBrokenList)
    /\ [][flow'.cursor >= flow.cursor]_vars

\* A flow whose wide word was broken for the one width in use has filled a
\* box and stands in the middle of the broken list.
C9_Witness ==
    /\ flow.word_break # "Normal"
    /\ Cardinality(flow_hist.widths) = 1
    /\ flow_hist.result = "BoxFull"
    /\ flow.cursor > 0
    /\ Len(BrokenList) > Len(extract_words(flow.spans))

\* C10: when every call on a flow was given the same rect width and the
\* last one returned Stop, every non-newline word of the broken word list
\* has been emitted exactly once and in list order, and the text emitted,
\* but for spaces and the hyphens Hyphenate inserted, is the concatenation
\* of the span texts.
C10_WordsEmittedOnceInOrder ==
    (Cardinality(flow_hist.widths) = 1 /\ flow_hist.result = "Stop") =>
        /\ EmittedAre(NonNewline(BrokenList))
        /\ CharsBut(NonNewline(BrokenList), {"-"}) = CharsBut(flow.spans, {" ", NL})

\* A hyphenated flow of two spans went over a page break and reached Stop.
C10_Witness ==
    /\ flow.word_break = "Hyphenate"
    /\ Cardinality(flow_hist.widths) = 1
    /\ flow_hist.result = "Stop"
    /\ flow_hist.paged
    /\ Len(flow.spans) = 2
    /\ Len(BrokenList) > Len(extract_words(flow.spans))
    /\ Len(flow_hist.emitted) >= 2

\* C11: a fit_textflow call that returns BoxEmpty appends nothing to the
\* page's content, adds no font to the page's used-font sets and leaves the
\* flow's cursor where it was.
C11_BoxEmptyChangesNothing ==
    [][flow_hist'.result = "BoxEmpty" =>
          /\ current_page'.content_ops = current_page.content_ops
          /\ current_page'.used_fonts = current_page.used_fonts
          /\ current_page'.used_truetype_fonts = current_page.used_truetype_fonts
          /\ flow'.cursor = flow.cursor]_vars

\* BoxEmpty answered to a flow that has text on the page and text left.
C11_Witness ==
    /\ flow_hist.result = "BoxEmpty"
    /\ flow.cursor > 0
    /\ flow.cursor < Len(BrokenList)
    /\ current_page.content_ops # <<>>
    /\ current_page.used_fonts # {}

\* The greatest of a set of numbers, 0 for none.
Max(S) == IF S = {} THEN 0 ELSE CHOOSE x \in S : \A y \in S : x >= y

\* The rect is at least as high as the tallest line of the flow and at
\* least as wide as its widest character, with a hyphen in Hyphenate.
FrameFits ==
    LET words == extract_words(flow.spans)
    IN /\ frame.height >= Max({line_height_for(words[k].style, truetype_fonts) :
                                  k \in DOMAIN words})
       /\ frame.width >=
             Max(UNION {{measure_word(<<words[k].text[i]>>, words[k].style,
                                      truetype_fonts)
                         + (IF flow.word_break = "Hyphenate"
                            THEN measure_word(<<"-">>, words[k].style, truetype_fonts)
                            ELSE 0) : i \in DOMAIN words[k].text} :
                        k \in DOMAIN words})

\* C12: for every word-break mode, in a rect at least as high as the
\* tallest line and at least as wide as the widest character (with a hyphen
\* in Hyphenate), calling fit_textflow again and again with that rect comes
\* to Stop, and every call that does not return Stop places at least one
\* word: a word wider than the rect is not answered with BoxEmpty for ever.
\* Termination is stated so that a finite run refutes it: while words of
\* the list are left, the next call moves the cursor on, and the list is
\* finite.
C12_PaginationTerminates ==
    /\ [](FrameFits /\ flow.cursor < Len(WordList(flow, frame.width, truetype_fonts))
            => generate_content_ops(flow, frame, truetype_fonts).cursor > flow.cursor)
    /\ [][(FrameFits /\ flow_hist'.result # "Stop") => flow'.cursor > flow.cursor]_vars

\* While words are left, the next call with the caller's rect places one.
NextCallPlaces ==
    flow.cursor < Len(WordList(flow, frame.width, truetype_fonts))
        => generate_content_ops(flow, frame, truetype_fonts).cursor > flow.cursor

\* C12 for the modes that break words: it fails for a word that fits the
\* rect but not together with the space before it.
C12_WhenWordsAreBroken ==
    (FrameFits /\ flow.word_break # "Normal") => NextCallPlaces

\* Every word of the list the calls lay out fits the rect's width together
\* with its leading space.
WordsFitWithSpace ==
    \A k \in DOMAIN WordList(flow, frame.width, truetype_fonts) :
        Total(WordList(flow, frame.width, truetype_fonts)[k], 0, truetype_fonts)
            <= frame.width

\* What the code does guarantee: progress when every word fits the width
\* with the space before it.
C12_WhenWordsFitWithSpace ==
    (FrameFits /\ WordsFitWithSpace) => NextCallPlaces

\* The next fit_textflow call with a rect of width w would return Stop and
\* emit nothing, whatever the rect's height.
NextCallStops(w) ==
    \A h \in FlowHeights :
        /\ generate_content_ops(flow, Rect(RectY, w, h), truetype_fonts).result = "Stop"
        /\ generate_content_ops(flow, Rect(RectY, w, h), truetype_fonts).ops = <<>>

\* The rect widths the next call goes by: the one used so far, any for a
\* flow not laid out yet.
WidthsSoFar == IF flow_hist.widths = {} THEN FlowWidths ELSE flow_hist.widths

\* C13: is_finished() is true exactly when all text of the flow has been
\* consumed, that is, exactly when the next fit_textflow call with the rect
\* width used so far would return Stop without emitting anything.
C13_IsFinishedWhenConsumed ==
    Cardinality(flow_hist.widths) <= 1 =>
        \A w \in WidthsSoFar : is_finished(flow) <=> NextCallStops(w)

\* What the code does guarantee: is_finished() is true whenever the next
\* call would return Stop, and exactly then while no word of the flow is
\* wider than the rect or word_break is Normal.
C13_WhenNoWordIsBroken ==
    Cardinality(flow_hist.widths) <= 1 =>
        \A w \in WidthsSoFar :
            /\ NextCallStops(w) => is_finished(flow)
            /\ Len(WordList(flow, w, truetype_fonts)) = Len(extract_words(flow.spans))
                  => (is_finished(flow) <=> NextCallStops(w))

\* The step is a fit_row call.
RowCall == table_hist'.calls = table_hist.calls + 1 /\ table_hist'.result # "none"

\* The row of the call does not fit below the cursor.
RowDoesNotFit ==
    tcursor.current_y - table_hist'.height < tcursor.rect.y - tcursor.rect.height

\* C14: when the row does not fit below the cursor, fit_row returns BoxEmpty
\* if no row has been placed since the cursor was created or last reset and
\* BoxFull otherwise; either way it appends nothing to the page, records no
\* font and leaves current_y and is_first_row as they were.  It never
\* returns BoxFull on a cursor just created or reset.
C14_RowThatDoesNotFit ==
    [][RowCall =>
          /\ RowDoesNotFit =>
                /\ table_hist'.result = (IF table_hist.rows = 0 THEN "BoxEmpty" ELSE "BoxFull")
                /\ current_page' = current_page
                /\ tcursor'.current_y = tcursor.current_y
                /\ is_first_row(tcursor') = is_first_row(tcursor)
          /\ table_hist.rows = 0 => table_hist'.result # "BoxFull"]_vars

\* A row was refused with BoxFull below a row in a TrueType face, and the
\* page holds what it held.
C14_Witness ==
    /\ table_hist.result = "BoxFull"
    /\ table_hist.rows = 1
    /\ current_page.used_truetype_fonts = {0}
    /\ tcursor.current_y - table_hist.height < tcursor.rect.y - tcursor.rect.height

\* C15: a fit_row call that returns Stop lowers current_y by the row's
\* height and clears is_first_row; new and reset set current_y to the top of
\* the rect and is_first_row to true; so current_y stays within the rect, is
\* the bottom edge of the last row placed, and is_first_row() is true
\* exactly when no row has been placed since the last new or reset.
C15_CursorFollowsPlacedRows ==
    /\ [][(RowCall /\ table_hist'.result = "Stop") =>
             /\ tcursor'.current_y = tcursor.current_y - table_hist'.height
             /\ ~is_first_row(tcursor')]_vars
    /\ [][table_hist'.result = "none" =>
             /\ tcursor'.current_y = tcursor'.rect.y
             /\ is_first_row(tcursor')]_vars
    /\ [](/\ tcursor.rect.y - tcursor.rect.height <= tcursor.current_y
          /\ tcursor.current_y <= tcursor.rect.y
          /\ tcursor.current_y = tcursor.rect.y - table_hist.dropped
          /\ is_first_row(tcursor) <=> table_hist.rows = 0)

\* Three rows placed, the last of height 0, down to the bottom of the rect.
C15_Witness ==
    /\ table_hist.rows = 3
    /\ table_hist.result = "Stop"
    /\ table_hist.height = 0
    /\ tcursor.current_y = tcursor.rect.y - tcursor.rect.height
    /\ ~is_first_row(tcursor)

\* The step is a load call that returned Err.
LoadFailed == Len(log') = Len(log) + 1 /\ ~log'[Len(log')].ok

\* The load calls of a kind that returned Ok, in the order they were made.
LoadsOk(op) == SelectSeq(log, LAMBDA c : c.op = op /\ c.ok)

\* C16: a load_font_bytes or load_image_bytes call that returns an error
\* changes no document state (the loaded fonts and images, the object
\* number counter, the font and image name counters), so that the faces
\* loaded get the handles 0, 1, .. and the names F15, F16, .. in the order
\* they were loaded, as if no call had failed.
C16_FailedLoadChangesNothing ==
    /\ [][LoadFailed =>
             /\ UNCHANGED <<truetype_fonts, images, next_obj_num, next_font_num,
                            next_image_num>>
             /\ UNCHANGED <<writerVars, docVars>>]_vars
    /\ [](/\ Len(LoadsOk("load_font_bytes")) = Len(truetype_fonts)
          /\ \A k \in DOMAIN truetype_fonts :
                /\ LoadsOk("load_font_bytes")[k].id = k - 1
                /\ truetype_fonts[k].pdf_name = <<"F", 14 + k>>
          /\ Len(LoadsOk("load_image_bytes")) = Len(images)
          /\ \A k \in DOMAIN images : LoadsOk("load_image_bytes")[k].id = k - 1)

\* What the code does guarantee: a failed load changes nothing but
\* next_font_num, and the handles are 0, 1, .. in the order of loading.
C16_ButForTheFontCounter ==
    /\ [][LoadFailed =>
             UNCHANGED <<writerVars, info, page_obj_ids, current_page, next_obj_num,
                         font_obj_ids, truetype_fonts, truetype_font_obj_ids, compress,
                         images, image_obj_ids, written_images, next_image_num,
                         overlay_streams>>]_vars
    /\ [](/\ Len(LoadsOk("load_font_bytes")) = Len(truetype_fonts)
          /\ \A k \in DOMAIN truetype_fonts : LoadsOk("load_font_bytes")[k].id = k - 1
          /\ Len(LoadsOk("load_image_bytes")) = Len(images)
          /\ \A k \in DOMAIN images : LoadsOk("load_image_bytes")[k].id = k - 1)

\* C17: every write the sink refuses during an operation of the document
\* is reported to the caller of that operation: once the sink has refused
\* a write, the caller has been handed an Err.
C17_SinkErrorsAreReported == sink_failures > 0 => status = "failed"

\* What the code does guarantee: the only operation that goes on after a
\* refused write without telling its caller is begin_page.
C17_ButForBeginPage ==
    [][(sink_failures' > sink_failures /\ status' # "failed")
           => (Len(log') = Len(log) + 1 /\ current_page.open)]_vars

\* The pages the caller of SpecEdit has completed, and the overlays of page
\* k it has completed: all but one it still has open.
PagesCompleted ==
    Len(log.pages) - (IF current_page.open /\ log.editing = 0 THEN 1 ELSE 0)
OverlaysCompleted(k) ==
    IF current_page.open /\ log.editing = k
    THEN SubSeq(log.pages[k].overlays, 1, Len(log.pages[k].overlays) - 1)
    ELSE log.pages[k].overlays

\* The place in the output of the page object in force for page k, and the
\* operators of the content stream with a given id.
LivePage(k) ==
    CHOOSE i \in ObjsOfKind("Page") :
        /\ IdAt(i) = page_obj_ids[k]
        /\ \A j \in ObjsOfKind("Page") : IdAt(j) = page_obj_ids[k] => j <= i
StreamOps(id) ==
    LET c == CHOOSE c \in ObjsOfKind("Content") : IdAt(c) = id IN BodyAt(c).ops
StreamsWritten(id) == Cardinality({c \in ObjsOfKind("Content") : IdAt(c) = id})

\* Page k is in the output as the caller made it: its dimensions, its own
\* content in a stream that /Contents names alone if the page has no
\* overlay, and else first in an array with the overlays in their order.
PageAsRecorded(k) ==
    LET page == BodyAt(LivePage(k))
        added == OverlaysCompleted(k)
        streams == IF k \in DOMAIN overlay_streams THEN overlay_streams[k] ELSE <<>>
    IN /\ page.media_box = <<0, 0, log.pages[k].width, log.pages[k].height>>
       /\ Len(streams) = Len(added)
       /\ StreamsWritten(page.contents) = 1
       /\ StreamOps(page.contents) = log.pages[k].content
       /\ IF added = <<>>
          THEN "contents_array" \notin DOMAIN page
          ELSE /\ "contents_array" \in DOMAIN page
               /\ page.contents_array = <<page.contents>> \o streams
               /\ \A j \in DOMAIN added :
                     /\ StreamsWritten(streams[j]) = 1
                     /\ StreamOps(streams[j]) = added[j]

\* C18: each open_page(i) with its end_page adds one content stream to page
\* i and leaves page_count() as it was; the /Contents of a page with
\* overlays is the array of its original stream and its overlays in the
\* order they were added, that of a page without is a single reference;
\* every page keeps its dimensions; and in the finished file the xref table
\* leads to the page dictionary that says so.
C18_OverlaysAddContentStreams ==
    /\ page_count = PagesCompleted
    /\ \A k \in 1 .. page_count : PageAsRecorded(k)
    /\ status = "done" =>
          /\ \A i \in ObjsOfKind("Pages") : BodyAt(i).count = page_count
          /\ \A k \in 1 .. page_count :
                \A j \in XrefEntriesAt(out) :
                    out[j].num = page_obj_ids[k][1] => EntryPointsAt(out, j, LivePage(k))

\* A finished file of an A5 page with two different overlays and a Letter
\* page with none.
C18_Witness ==
    /\ status = "done"
    /\ page_count = 2
    /\ \E k \in 1 .. 2 :
          /\ log.pages[k].width = 419000
          /\ Len(log.pages[k].overlays) = 2
          /\ log.pages[k].overlays[1] # log.pages[k].overlays[2]
          /\ log.pages[k].overlays[1] # <<>>
          /\ log.pages[3 - k].width = LetterWidth
          /\ log.pages[3 - k].overlays = <<>>

\* The step is an open_page call that returned Err.
OpenPageRefused == log'.refused = log.refused + 1

Unhyphened(i) ==
    LET piece == bw.pieces[i]
    IN IF bw.mode = "Hyphenate" /\ i < Len(bw.pieces)
          /\ piece # <<>> /\ piece[Len(piece)] = "-"
       THEN SubSeq(piece, 1, Len(piece) - 1)
       ELSE piece

RECURSIVE Joined(_)
Joined(i) == IF i = 0 THEN <<>> ELSE Joined(i - 1) \o Unhyphened(i)

\* C20: break_word returns, for every word, width, font and mode, pieces
\* each of which holds at least one character of the word (so there are no
\* more pieces than characters), and which, joined in order without the
\* trailing "-" of each piece before the last in Hyphenate mode, are the
\* word; an empty word gives no pieces.
C20_BreakWordPiecesJoinToWord ==
    bw.called =>
        /\ \A i \in DOMAIN bw.pieces : Unhyphened(i) # <<>>
        /\ Len(bw.pieces) <= Len(bw.word)
        /\ Joined(Len(bw.pieces)) = bw.word
        /\ bw.word = <<>> => bw.pieces = <<>>

\* A word with a hyphen of its own, broken in Hyphenate mode into pieces of
\* one character each because the width holds not even the "-".
C20_Witness ==
    /\ bw.called
    /\ bw.mode = "Hyphenate"
    /\ bw.avail_width <= 0
    /\ Len(bw.word) = 3 /\ bw.word[2] = "-"
    /\ Len(bw.pieces) = 3

\* The width of a line with one more word when the space before a word
\* counts only if the word is not the first of the line.
TotalSpaceWithinLine(word, line_width, is_first_on_line, tt_fonts) ==
    IF is_first_on_line
    THEN measure_word(word.text, word.style, tt_fonts)
    ELSE Total(word, line_width, tt_fonts)

\* The end of the line that starts at line_start when its words are tested
\* against the width that way; -1 stands for the return of BoxEmpty.
RECURSIVE LineEndSpaceWithinLine(_, _, _, _, _, _, _)
LineEndSpaceWithinLine(words, width, line_start, line_end, line_width,
                       any_text_placed, tt_fonts) ==
    IF line_end >= Len(words) THEN line_end
    ELSE IF words[line_end + 1].text = <<NL>> THEN line_end + 1
    ELSE LET total == TotalSpaceWithinLine(words[line_end + 1], line_width,
                                           line_end = line_start, tt_fonts)
         IN IF total > width /\ line_end > line_start THEN line_end
            ELSE IF total > width
            THEN (IF ~any_text_placed THEN -1 ELSE line_end + 1)
            ELSE LineEndSpaceWithinLine(words, width, line_start, line_end + 1, total,
                                        any_text_placed, tt_fonts)

\* C21: when fit_textflow composes a line, the space before a word adds to
\* the width of the line only if the word is not the first of the line: the
\* line that starts at the cursor, first in its call or not, ends where it
\* ends when its first word is tested by its own width alone.
C21_LeadingSpaceOnlyWithinLine ==
    \A any_text_placed \in BOOLEAN :
        LET words == WordList(flow, frame.width, truetype_fonts)
        IN LineEnd(words, frame.width, flow.cursor, flow.cursor, 0, any_text_placed,
                   truetype_fonts)
           = LineEndSpaceWithinLine(words, frame.width, flow.cursor, flow.cursor, 0,
                                    any_text_placed, truetype_fonts)

\* What the code does guarantee: the two agree on every line whose first
\* word has no space before it, and the first word of a line is shown
\* without its space.
C21_WhenFirstWordHasNoSpace ==
    LET words == WordList(flow, frame.width, truetype_fonts)
    IN (flow.cursor < Len(words) /\ ~words[flow.cursor + 1].leading_space) =>
          \A any_text_placed \in BOOLEAN :
              LineEnd(words, frame.width, flow.cursor, flow.cursor, 0, any_text_placed,
                      truetype_fonts)
              = LineEndSpaceWithinLine(words, frame.width, flow.cursor, flow.cursor, 0,
                                       any_text_placed, truetype_fonts)

\* The numbers of the objects in the output, and SIZE: the largest of them
\* plus 1.
NumsInOutput == {out[i].num : i \in ObjectsAt(out)}
SizeOfOutput == IF NumsInOutput = {} THEN 1 ELSE Max(NumsInOutput) + 1

\* The entries of the xref section in the order they are in the output.
EntriesInOrder == SortedSeq(XrefEntriesAt(out))

\* C22: the xref section starts with "0 SIZE", SIZE the largest object
\* number written plus 1; /Size of the trailer is SIZE; the section holds
\* SIZE entries, one for each number from 0 in order: entry 0 is the head
\* of the free list, a written number has an in-use entry, and a number
\* never written has the free entry 0000000000 00000 f.
C22_XrefSectionSizeAndEntries ==
    status = "done" =>
        /\ \A k \in DOMAIN out :
              /\ out[k].t = "subsection" => out[k].first = 0 /\ out[k].size = SizeOfOutput
              /\ out[k].t = "trailerdict" => out[k].size = SizeOfOutput
        /\ Cardinality({k \in DOMAIN out : out[k].t = "subsection"}) = 1
        /\ Len(EntriesInOrder) = SizeOfOutput
        /\ \A n \in 0 .. (SizeOfOutput - 1) :
              LET entry == out[EntriesInOrder[n + 1]]
              IN /\ entry.num = n
                 /\ n = 0 => entry.kind = "f" /\ entry.off = 0 /\ entry.gen = 65535
                 /\ (n > 0 /\ n \in NumsInOutput) => entry.kind = "n"
                 /\ (n > 0 /\ n \notin NumsInOutput) =>
                        entry.kind = "f" /\ entry.off = 0 /\ entry.gen = 0

\* A finished file with objects 2 and 4 and none numbered 1 or 3.
C22_Witness ==
    /\ status = "done"
    /\ NumsInOutput = {2, 4}
    /\ Len(EntriesInOrder) = 5

\* C23: every entry of the xref table is 20 bytes long and ends with CR LF,
\* whatever the byte offset of the object.
C23_XrefEntryIs20Bytes ==
    (fmt.fn = "xref_entry" /\ fmt.called) =>
        /\ Len(fmt.text) = 20
        /\ SubSeq(fmt.text, Len(fmt.text) - 1, Len(fmt.text)) = <<"CR", "LF">>

\* What the code does guarantee: 20 bytes for an offset below 10^10, and
\* CR LF at the end of every entry.
C23_UpToTenDigits ==
    (fmt.fn = "xref_entry" /\ fmt.called) =>
        /\ Len(fmt.arg) <= 10 => Len(fmt.text) = 20
        /\ SubSeq(fmt.text, Len(fmt.text) - 1, Len(fmt.text)) = <<"CR", "LF">>

\* The characters of a text after its first ".", if it has one.
Decimals(text) ==
    LET dots == {i \in DOMAIN text : text[i] = "."}
    IN IF dots = {} THEN <<>>
       ELSE SubSeq(text, 1 + (CHOOSE i \in dots : \A j \in dots : i <= j), Len(text))

HasPointNoExponent(text) ==
    /\ \E i \in DOMAIN text : text[i] = "."
    /\ \A i \in DOMAIN text : text[i] \notin {"e", "E"}

\* C24: every finite Real is written with a decimal point and without an
\* exponent: an integer-valued one as its digits and ".0", any other with
\* one to six decimals.
C24_RealHasDecimalPoint ==
    (fmt.fn = "format_real" /\ fmt.called) =>
        /\ HasPointNoExponent(fmt.text)
        /\ fmt.arg.frac = 0 => fmt.text = Sign(fmt.arg) \o fmt.arg.int \o <<".", "0">>
        /\ fmt.arg.frac # 0 => Len(Decimals(fmt.text)) \in 1 .. 6

\* What the code does guarantee: that, for an integer below 10^15 and for a
\* value that six decimals do not round to an integer; and never more than
\* six decimals nor an exponent.
C24_WhenNotRoundedToInteger ==
    (fmt.fn = "format_real" /\ fmt.called) =>
        /\ Len(Decimals(fmt.text)) <= 6
        /\ \A i \in DOMAIN fmt.text : fmt.text[i] \notin {"e", "E"}
        /\ (fmt.arg.frac = 0 /\ Len(fmt.arg.int) <= 15) =>
              fmt.text = Sign(fmt.arg) \o fmt.arg.int \o <<".", "0">>
        /\ (fmt.arg.frac # 0 /\ (fmt.arg.frac + 5) \div 10 \notin {0, 1000000}) =>
              HasPointNoExponent(fmt.text) /\ Len(Decimals(fmt.text)) \in 1 .. 6

\* The table of a file whose catalog, object 1, is at the offset of fmt.arg,
\* as the writer writes it: "0 2", the head entry, the entry, "trailer".
TableOfCatalogAt(entry) ==
    <<"0", " ", "2", "LF">> \o EntryText(FreeEntry(0, 65535)) \o entry \o TrailerKeyword

\* C25: PdfReader::from_bytes succeeds on every document the assembler
\* finished on a sink that never failed, page_count() is the number of its
\* pages and pdf_version() is "1.7"; for that the reader has to find the
\* catalog at the offset the writer put in the table, wherever that is.
C25_ReaderRoundTrip ==
    /\ (status = "done" /\ sink_failures = 0) =>
          PdfReader_from_bytes(out) = [ok |-> TRUE, page_count |-> Len(log), pdf_version |-> "1.7"]
    /\ (fmt.fn = "xref_entry" /\ fmt.called) =>
          LET table == parse_xref_table(TableOfCatalogAt(fmt.text), <<>>)
          IN table.ok /\ 1 \in DOMAIN table.map /\ table.map[1] = fmt.arg

\* What the code does guarantee: the round trip of every document whose
\* objects are all at offsets below 10^10.
C25_WhenOffsetsHaveTenDigits ==
    /\ (status = "done" /\ sink_failures = 0) =>
          PdfReader_from_bytes(out) = [ok |-> TRUE, page_count |-> Len(log), pdf_version |-> "1.7"]
    /\ (fmt.fn = "xref_entry" /\ fmt.called /\ Len(fmt.arg) <= 10) =>
          LET table == parse_xref_table(TableOfCatalogAt(fmt.text), <<>>)
          IN table.ok /\ 1 \in DOMAIN table.map /\ table.map[1] = fmt.arg

\* A finished file of two pages that the reader reads back.
C25_RoundTripReached ==
    /\ status = "done" /\ sink_failures = 0 /\ Len(log) = 2
    /\ PdfReader_from_bytes(out).ok

NextRowIsFull ==
    generate_row_ops(DocTable, table_hist.rows[table_hist.next], tcursor,
                     truetype_fonts).result = "BoxFull"

\* C27: in the streaming loop with a repeated header no row is answered
\* BoxFull on every page.  Every page starts from the same cursor and the
\* same header, so the loop ends exactly if the first data row tried on a
\* page is never answered BoxFull, and then no row is answered BoxFull on
\* two pages running.
C27_HeaderLoopTerminates ==
    /\ (table_hist.pc = "rows" /\ table_hist.on_page = 0) => ~NextRowIsFull
    /\ table_hist.full_pages <= 1

\* Every data row fits the rect under the header, or the header does not
\* fit the rect.
RowsFitUnderHeader ==
    \/ measure_row_height(table_hist.header) > tcursor.rect.height
    \/ \A k \in DOMAIN table_hist.rows :
          measure_row_height(table_hist.header) + measure_row_height(table_hist.rows[k])
              <= tcursor.rect.height

\* What the code does guarantee: the loop ends when every row fits under
\* the header.
C27_WhenRowsFitUnderHeader == RowsFitUnderHeader => C27_HeaderLoopTerminates

\* The loop has come to its end over two pages, the header on each.
C27_LoopEnds ==
    /\ table_hist.pc = "done" /\ table_hist.pages = 2
    /\ table_hist.next = Len(table_hist.rows) + 1

\* The object numbers handed out so far.
HandedOut == FIRST_PAGE_OBJ_NUM .. (next_obj_num - 1)

\* The ids the document keeps: of the built-in fonts, of the images and
\* their masks, of the TrueType faces and of the pages.
ImageIdsKept ==
    {image_obj_ids[i].xobject : i \in DOMAIN image_obj_ids}
        \cup ({image_obj_ids[i].smask : i \in DOMAIN image_obj_ids} \ {NoId})
FaceIdsKept ==
    UNION {{truetype_font_obj_ids[i].type0, truetype_font_obj_ids[i].cid_font,
            truetype_font_obj_ids[i].descriptor, truetype_font_obj_ids[i].font_file,
            truetype_font_obj_ids[i].tounicode} : i \in DOMAIN truetype_font_obj_ids}
IdsKept ==
    {font_obj_ids[f] : f \in DOMAIN font_obj_ids} \cup ImageIdsKept \cup FaceIdsKept
        \cup Range(page_obj_ids)
IdsKeptCount ==
    Cardinality(DOMAIN font_obj_ids)
        + Cardinality(DOMAIN image_obj_ids)
        + Cardinality({i \in DOMAIN image_obj_ids : image_obj_ids[i].smask # NoId})
        + 5 * Cardinality(DOMAIN truetype_font_obj_ids)
        + Len(page_obj_ids)

\* The objects in the file that carry the number n.
ObjectsNumbered(n) == {i \in ObjectsAt(out) : out[i].num = n}

HexVal(h) == CHOOSE gid \in {0, 1, 2, 4} : Hex4(gid) = h

\* The font in force at operator k of a content stream: the name of the
\* last Tf before it.
FontInForce(ops, k) ==
    LET tfs == {j \in 1 .. (k - 1) : ops[j].op = "Tf"}
    IN IF tfs = {} THEN <<>> ELSE ops[CHOOSE j \in tfs : \A i \in tfs : i <= j].name

\* The glyph ids the Tj operators of a content stream show in a face.
GlyphsShown(ops, name) ==
    UNION {{HexVal(ops[k].text[i]) : i \in DOMAIN ops[k].text} :
              k \in {j \in DOMAIN ops : ops[j].op = "Tj" /\ FontInForce(ops, j) = name}}

\* The glyph ids emitted for a face on the pages the caller made, and those
\* in the content streams of the file.
GlyphsEmitted(name) == UNION {GlyphsShown(log[k].content, name) : k \in DOMAIN log}
GlyphsInFile(name) ==
    UNION {GlyphsShown(BodyAt(c).ops, name) : c \in ObjsOfKind("Content")}

\* w is start, widths, start, widths, ...: the runs cover exactly the ids
\* of G, each run is a start id with the widths of the ids from it on, the
\* runs ascend, and two runs are never adjacent (each is maximal).
IsWArrayOf(w, G) ==
    /\ Len(w) % 2 = 0
    /\ \A r \in 1 .. (Len(w) \div 2) :
          /\ Len(w[2 * r]) >= 1
          /\ \A i \in DOMAIN w[2 * r] : w[2 * r][i] = GlyphWidth(w[2 * r - 1] + i - 1)
          /\ r > 1 => w[2 * r - 1] > w[2 * r - 3] + Len(w[2 * r - 2])
    /\ UNION {w[2 * r - 1] .. (w[2 * r - 1] + Len(w[2 * r]) - 1) : r \in 1 .. (Len(w) \div 2)}
          = G

\* C29: in a finished file the /W array of every face that has objects
\* covers exactly the glyph ids emitted for the face on any page, in
\* ascending maximal runs, each a start id and the widths of the run; and
\* when no write was refused these are the glyph ids in the content streams
\* of the file.
C29_WArrayCoversEmittedGlyphs ==
    status = "done" =>
        \A idx \in 0 .. (Len(truetype_fonts) - 1) :
            /\ \A i \in ObjsOfKind("CIDFontType2") :
                  BodyAt(i).face = idx =>
                      IsWArrayOf(BodyAt(i).w, GlyphsEmitted(truetype_fonts[idx + 1].pdf_name))
            /\ sink_failures = 0 =>
                  /\ GlyphsInFile(truetype_fonts[idx + 1].pdf_name)
                        = GlyphsEmitted(truetype_fonts[idx + 1].pdf_name)
                  /\ GlyphsEmitted(truetype_fonts[idx + 1].pdf_name) # {} =>
                        \E i \in ObjsOfKind("CIDFontType2") : BodyAt(i).face = idx

\* A finished file of two pages: the first face showed glyphs 1 and 2 on the
\* first page and glyph 4 on the second, which makes two runs; the second
\* face showed glyph 0.
C29_Witness ==
    /\ status = "done" /\ sink_failures = 0 /\ Len(log) = 2
    /\ GlyphsShown(log[1].content, truetype_fonts[1].pdf_name) = {1, 2}
    /\ GlyphsShown(log[2].content, truetype_fonts[1].pdf_name) = {4}
    /\ GlyphsEmitted(truetype_fonts[2].pdf_name) = {0}
    /\ \E i \in ObjsOfKind("CIDFontType2") :
          BodyAt(i).face = 0 /\ BodyAt(i).w = <<1, <<510, 520>>, 4, <<540>>>>


(***************************************************************************)
(* SpecCell: one cell of a row of automatic height (tables.rs).            *)
(* generate_row_ops measures the row (measure_row_height, which calls      *)
(* measure_cell_height and so count_lines) and then renders the cell       *)
(* (render_cell, which calls wrap_text).  Lengths are in thousandths of a  *)
(* point; a text is the sequence of its characters.                        *)
(***************************************************************************)
\* str::trim on a paragraph: the white space at both ends goes.
RECURSIVE trim_start(_)
trim_start(text) ==
    IF text # <<>> /\ text[1] = " " THEN trim_start(Tail(text)) ELSE text
RECURSIVE trim_end(_)
trim_end(text) ==
    IF text # <<>> /\ text[Len(text)] = " "
    THEN trim_end(SubSeq(text, 1, Len(text) - 1)) ELSE text
trim(text) == trim_end(trim_start(text))

\* str::split('\n'): the pieces between the newlines, the empty ones too.
RECURSIVE SplitAt(_, _, _)
SplitAt(text, i, cur) ==
    IF i > Len(text) THEN <<cur>>
    ELSE IF text[i] = NL THEN <<cur>> \o SplitAt(text, i + 1, <<>>)
    ELSE SplitAt(text, i + 1, Append(cur, text[i]))
split_newline(text) == SplitAt(text, 1, <<>>)

\* str::split_whitespace: the words between runs of white space.
RECURSIVE WordsFrom(_, _, _)
WordsFrom(text, i, cur) ==
    IF i > Len(text) THEN (IF cur = <<>> THEN <<>> ELSE <<cur>>)
    ELSE IF text[i] = " " \/ text[i] = NL
    THEN (IF cur = <<>> THEN <<>> ELSE <<cur>>) \o WordsFrom(text, i + 1, <<>>)
    ELSE WordsFrom(text, i + 1, Append(cur, text[i]))
split_whitespace(text) == WordsFrom(text, 1, <<>>)

\* make_text_style
make_text_style(style) == TextStyle(style.font, style.font_size)

\* count_break_lines
count_break_lines(word, avail_width, style, word_break, tt_fonts) ==
    Len(break_word(word, avail_width, style, word_break, tt_fonts))

\* trailing_piece_width: the width of the last piece, 0 when there is none.
trailing_piece_width(word, avail_width, style, word_break, tt_fonts) ==
    LET pieces == break_word(word, avail_width, style, word_break, tt_fonts)
    IN IF pieces = <<>> THEN 0 ELSE measure_word(pieces[Len(pieces)], style, tt_fonts)

\* count_paragraph_lines, the body of the loop over the words: c is
\* [lines, line_width].
CountWord(c, word, avail_width, style, word_break, tt_fonts) ==
    LET word_w == measure_word(word, style, tt_fonts)
        space_w == IF c.line_width = 0 THEN 0 ELSE measure_word(<<" ">>, style, tt_fonts)
        needed == c.line_width + space_w + word_w
        broken == count_break_lines(word, avail_width, style, word_break, tt_fonts) - 1
        trailing == trailing_piece_width(word, avail_width, style, word_break, tt_fonts)
    IN IF needed > avail_width /\ c.line_width > 0
       THEN IF word_break # "Normal" /\ word_w > avail_width
            THEN [lines |-> c.lines + 1 + broken, line_width |-> trailing]
            ELSE [lines |-> c.lines + 1, line_width |-> word_w]
       ELSE IF word_break # "Normal" /\ word_w > avail_width
       THEN [lines |-> c.lines + broken, line_width |-> trailing]
       ELSE [lines |-> c.lines, line_width |-> needed]

RECURSIVE CountWords(_, _, _, _, _, _)
CountWords(c, words, avail_width, style, word_break, tt_fonts) ==
    IF words = <<>> THEN c
    ELSE CountWords(CountWord(c, words[1], avail_width, style, word_break, tt_fonts),
                    Tail(words), avail_width, style, word_break, tt_fonts)

\* count_paragraph_lines
count_paragraph_lines(text, avail_width, style, word_break, tt_fonts) ==
    IF trim(text) = <<>> THEN 1
    ELSE CountWords([lines |-> 1, line_width |-> 0], split_whitespace(trim(text)),
                    avail_width, style, word_break, tt_fonts).lines

RECURSIVE SumParagraphLines(_, _, _, _, _)
SumParagraphLines(paras, avail_width, style, word_break, tt_fonts) ==
    IF paras = <<>> THEN 0
    ELSE count_paragraph_lines(paras[1], avail_width, style, word_break, tt_fonts)
         + SumParagraphLines(Tail(paras), avail_width, style, word_break, tt_fonts)

\* count_lines: 1 for an empty text, else the sum over the paragraphs,
\* at least 1.
count_lines(text, avail_width, style, word_break, tt_fonts) ==
    IF text = <<>> THEN 1
    ELSE LET n == SumParagraphLines(split_newline(text), avail_width, style,
                                    word_break, tt_fonts)
         IN IF n < 1 THEN 1 ELSE n

\* measure_cell_height: the width left of the column is NOT held at 0.
measure_cell_height(text, style, col_width, tt_fonts) ==
    LET avail_width == col_width - 2 * style.padding
        ts == make_text_style(style)
        lines == count_lines(text, avail_width, ts, style.word_break, tt_fonts)
    IN [lines |-> lines,
        height |-> lines * line_height_for(ts, tt_fonts) + 2 * style.padding]

\* place_word_on_line, the pieces of a broken word: all but the last are
\* pushed, the last is the line being filled.
PlacePieces(w, pieces, style, tt_fonts) ==
    [out |-> w.out \o SubSeq(pieces, 1, Len(pieces) - 1),
     current_line |-> pieces[Len(pieces)],
     line_width |-> measure_word(pieces[Len(pieces)], style, tt_fonts)]

\* place_word_on_line: w is [out, current_line, line_width].
place_word_on_line(w, word, avail_width, style, word_break, tt_fonts) ==
    IF measure_word(word, style, tt_fonts) <= avail_width \/ word_break = "Normal"
    THEN [w EXCEPT !.current_line = (IF @ # <<>> THEN Append(@, " ") ELSE @) \o word,
                   !.line_width = @ + measure_word(word, style, tt_fonts)]
    ELSE PlacePieces(w, break_word(word, avail_width, style, word_break, tt_fonts),
                     style, tt_fonts)

\* wrap_paragraph, the body of the loop over the words.
WrapWord(w, word, avail_width, style, word_break, tt_fonts) ==
    LET word_w == measure_word(word, style, tt_fonts)
        space_w == IF w.current_line = <<>> THEN 0
                   ELSE measure_word(<<" ">>, style, tt_fonts)
        needed == w.line_width + space_w + word_w
    IN IF needed > avail_width /\ w.current_line # <<>>
       THEN place_word_on_line([out |-> Append(w.out, w.current_line),
                                current_line |-> <<>>, line_width |-> 0],
                               word, avail_width, style, word_break, tt_fonts)
       ELSE IF word_w > avail_width /\ word_break # "Normal" /\ w.current_line = <<>>
       THEN place_word_on_line(w, word, avail_width, style, word_break, tt_fonts)
       ELSE [w EXCEPT !.current_line = (IF @ # <<>> THEN Append(@, " ") ELSE @) \o word,
                      !.line_width = needed]

RECURSIVE WrapWords(_, _, _, _, _, _)
WrapWords(w, words, avail_width, style, word_break, tt_fonts) ==
    IF words = <<>> THEN w
    ELSE WrapWords(WrapWord(w, words[1], avail_width, style, word_break, tt_fonts),
                   Tail(words), avail_width, style, word_break, tt_fonts)

\* wrap_paragraph: the lines of one (trimmed) paragraph, appended to the
\* lines so far.
wrap_paragraph(text, avail_width, style, word_break, tt_fonts, lines_out) ==
    IF text = <<>> THEN Append(lines_out, <<>>)
    ELSE LET w == WrapWords([out |-> lines_out, current_line |-> <<>>, line_width |-> 0],
                            split_whitespace(text), avail_width, style, word_break,
                            tt_fonts)
         IN IF w.current_line # <<>> THEN Append(w.out, w.current_line) ELSE w.out

RECURSIVE WrapParagraphs(_, _, _, _, _, _)
WrapParagraphs(paras, avail_width, style, word_break, tt_fonts, lines_out) ==
    IF paras = <<>> THEN lines_out
    ELSE WrapParagraphs(Tail(paras), avail_width, style, word_break, tt_fonts,
                        wrap_paragraph(trim(paras[1]), avail_width, style, word_break,
                                       tt_fonts, lines_out))

\* wrap_text
wrap_text(text, avail_width, style, word_break, tt_fonts) ==
    LET lines == WrapParagraphs(split_newline(text), avail_width, style, word_break,
                                tt_fonts, <<>>)
    IN IF lines = <<>> THEN <<<<>>>> ELSE lines

\* render_cell of a Wrap cell, up to its call of wrap_text: the width left
\* of the column is held at 0, the font size is the style's.
RenderedLines(text, style, col_width, tt_fonts) ==
    LET avail_width == IF col_width - 2 * style.padding < 0 THEN 0
                       ELSE col_width - 2 * style.padding
    IN wrap_text(text, avail_width, make_text_style(style), style.word_break, tt_fonts)

\* CellStyle, the fields that measure_cell_height and render_cell read.
CellStyle(font, font_size, padding, word_break) ==
    [font |-> font, font_size |-> font_size, padding |-> padding,
     overflow |-> "Wrap", word_break |-> word_break]

CellChars == {"a", MARK, " ", NL}
CellTexts == UNION {[1 .. n -> CellChars] : n \in 0 .. MaxCellLen}
CellColWidths == {4000, 12000, 20000}
CellPaddings == {0, 4000, 7000}
CellFontSizes == {0, 10}
CellFonts == {Builtin("Helvetica"), TrueType(0)}

\* generate_row_ops, first half: measure_row_height of the row of the cell.
T_measure_row_height ==
    /\ fmt.fn = "cell" /\ ~fmt.measured
    /\ fmt' = [fmt EXCEPT !.measured = TRUE,
                          !.row = measure_cell_height(fmt.arg.text, fmt.arg.style,
                                                      fmt.arg.col_width, truetype_fonts)]
    /\ UNCHANGED <<writerVars, docVars, status, sink_failures, log, flow, flow_hist,
                   tcursor, table_hist, frame, bw>>

\* generate_row_ops, second half: render_cell of the cell.
T_render_cell ==
    /\ fmt.fn = "cell" /\ fmt.measured /\ ~fmt.called
    /\ fmt' = [fmt EXCEPT !.called = TRUE,
                          !.lines = RenderedLines(fmt.arg.text, fmt.arg.style,
                                                  fmt.arg.col_width, truetype_fonts)]
    /\ UNCHANGED <<writerVars, docVars, status, sink_failures, log, flow, flow_hist,
                   tcursor, table_hist, frame, bw>>

InitCell ==
    /\ InitWriterVars /\ InitCaller
    /\ info = <<>>
    /\ page_obj_ids = <<>>
    /\ current_page = NoPage
    /\ next_obj_num = FIRST_PAGE_OBJ_NUM
    /\ font_obj_ids = EmptyMap
    /\ truetype_fonts = <<from_bytes("ttf", 15).font>>
    /\ truetype_font_obj_ids = EmptyMap
    /\ next_font_num = 16
    /\ compress = FALSE
    /\ images = <<>>
    /\ image_obj_ids = EmptyMap
    /\ written_images = {}
    /\ next_image_num = 1
    /\ overlay_streams = EmptyMap
    /\ flow = NoFlow /\ flow_hist = NoHist /\ tcursor = NoCursor
    /\ table_hist = NoTableHist /\ frame = NoFrame /\ bw = NoBreak
    /\ \E text \in CellTexts, col_width \in CellColWidths, padding \in CellPaddings,
          font \in CellFonts, font_size \in CellFontSizes, word_break \in WordBreaks :
         fmt = [fn |-> "cell",
                arg |-> [text |-> text, col_width |-> col_width,
                         style |-> CellStyle(font, font_size, padding, word_break)],
                called |-> FALSE, text |-> <<>>, measured |-> FALSE,
                row |-> [lines |-> 0, height |-> 0], lines |-> <<>>]

NextCell == T_measure_row_height \/ T_render_cell

SpecCell == InitCell /\ [][NextCell]_vars

\* C30: for every cell text, column width, padding, font size and
\* word-break mode, the number of lines count_lines reports when the
\* automatic row height is measured equals the number of lines wrap_text
\* produces when the cell is rendered.
C30_MeasuredLinesAreRenderedLines ==
    (fmt.fn = "cell" /\ fmt.called) => fmt.row.lines = Len(fmt.lines)

\* The second half of C30: the text drawn never needs more lines than the
\* row height was computed for.
C30_NeverMoreLinesThanMeasured ==
    (fmt.fn = "cell" /\ fmt.called) => Len(fmt.lines) <= fmt.row.lines

\* What holds: the two agree for a text whose characters all have a
\* width above 0 in the font and size of the cell, whatever the padding.
EveryCharacterHasWidth(text, style, tt_fonts) ==
    \A i \in DOMAIN text :
        text[i] = NL \/ measure_word(<<text[i]>>, make_text_style(style), tt_fonts) > 0
C30_WhenEveryCharacterHasWidth ==
    (fmt.fn = "cell" /\ fmt.called
     /\ EveryCharacterHasWidth(fmt.arg.text, fmt.arg.style, truetype_fonts))
    => fmt.row.lines = Len(fmt.lines)

====
